---------------------------- MODULE Spec2Model ----------------------------
(***************************************************************************)
(* Model of the PDF auto-ballooning tool: the AutoAnnotationWorker thread  *)
(* (text-region detection, padding, merge, numbering) of src/main.py and   *)
(* the part of BalloonTool / PDFViewer that starts it, cancels it and      *)
(* receives its signals.                                                   *)
(*                                                                         *)
(* Coordinates are integers (the code uses floats; every operation used   *)
(* here is exact on the values of the model).  A text is a sequence of     *)
(* one-character strings, so that len() and strip() are computed.          *)
(***************************************************************************)
EXTENDS Integers, Sequences, FiniteSets, TLC

VARIABLES
    files,                  \* the file system: path -> document (pages with rect and blocks)
    workers,                \* every AutoAnnotationWorker constructed so far, by creation order
    events,                 \* the main thread's event queue: queued signal deliveries
    main_pc,                \* "idle", or "waiting" inside auto_worker.wait()
    pdf_path,               \* BalloonTool.pdf_path
    auto_worker,            \* BalloonTool.auto_worker: index into workers, 0 for None
    auto_annotations_temp,  \* BalloonTool.auto_annotations_temp
    auto_controls_visible,  \* BalloonTool.auto_controls.isVisible()
    auto_annotate_btn,      \* BalloonTool.auto_annotate_btn.isEnabled()
    progress_bar,           \* [visible, value] of BalloonTool.progress_bar
    viewer,                 \* PDFViewer: [pdf_doc, current_page]
    cancelled,              \* history: workers in flight when cancel_auto_annotation ran
    finished_runs,          \* history: per worker, how often auto_annotation_finished ran for it
    pure_call,              \* a call of a pure function on its own: its arguments and its result
    annotations,            \* BalloonTool.annotations, the permanent list
    viewer_annotations,     \* PDFViewer.annotations, the list display_page redraws from
    scene,                  \* the DraggableAnnotation items on PDFViewer.scene
    modes,                  \* selection and deletion mode of PDFViewer and BalloonTool, and their buttons
    ocr                     \* OCRManager and its OCRWorker: [available, tasks, pc, task, annotation_texts]

vars == <<files, workers, events, main_pc, pdf_path, auto_worker,
          auto_annotations_temp, auto_controls_visible, auto_annotate_btn,
          progress_bar, viewer, cancelled, finished_runs, pure_call,
          annotations, viewer_annotations, scene, modes, ocr>>

\* the permanent annotations, their graphics and their OCR texts
list_vars == <<annotations, viewer_annotations, scene, modes, ocr>>

\* what neither the worker nor the handlers of its signals touch
other_vars == <<pure_call, list_vars>>

gui_vars == <<main_pc, pdf_path, auto_worker, auto_annotations_temp,
              auto_controls_visible, auto_annotate_btn, progress_bar, viewer,
              cancelled, finished_runs>>

-----------------------------------------------------------------------------
(* Bounds of the model *)

MaxBlocks == 3      \* text blocks on a page of the detection specification
MaxWorkers == 2     \* workers constructed in one behaviour of the GUI specification
MaxTwoRunBlocks == 2 \* text blocks on the page of the two-runs specification
MaxAnnotations == 2  \* entries of the permanent annotation list
MaxViewerAnnotations == 3 \* entries of the viewer's annotation list
MaxTasks == 2        \* tasks in the queue of the OCR worker
MaxPages == 3        \* pages of the longest document of the navigation specification
MaxShift == 10      \* offsets of the squares of the overlap specification
MaxRegions == 11    \* merged regions of the numbering specification

(* Program constants *)

vertical_padding == 15
horizontal_padding == 10
DisplayScale == 2
ThresholdNum == 3
ThresholdDen == 10
MinTextLen == 2

COLORS == << "#FF4444", "#44FF44", "#4444FF", "#FFAA00", "#AA44FF",
             "#00FFAA", "#FF0088", "#88FF00", "#0088FF", "#FF8800" >>

-----------------------------------------------------------------------------
(* Arithmetic and text helpers *)

Min(a, b) == IF a <= b THEN a ELSE b
Max(a, b) == IF a >= b THEN a ELSE b

IsSpace(c) == c = " "

RECURSIVE LStrip(_)
LStrip(s) == IF s # <<>> /\ IsSpace(Head(s)) THEN LStrip(Tail(s)) ELSE s

RECURSIVE RStrip(_)
RStrip(s) ==
    IF s # <<>> /\ IsSpace(s[Len(s)]) THEN RStrip(SubSeq(s, 1, Len(s) - 1)) ELSE s

\* str.strip()
Strip(s) == RStrip(LStrip(s))

\* no pure function is being called on its own
NoCall == [fn |-> "none"]

\* PDFViewer.__init__ and BalloonTool.__init__: no mode is on, no button checked
NoModes ==
    [selection_mode |-> FALSE,          \* PDFViewer.selection_mode
     viewer_deletion_mode |-> FALSE,    \* PDFViewer.deletion_mode
     deletion_mode |-> FALSE,           \* BalloonTool.deletion_mode
     annotate_btn |-> FALSE,            \* annotate_btn.isChecked()
     deletion_mode_btn |-> FALSE]       \* deletion_mode_btn.isChecked()

NoTask == [annotation_number |-> 0]

\* OCRManager.__init__ and OCRWorker.__init__: an empty queue, a thread not
\* started, no text; available is OCR_AVAILABLE, fixed when the module is
\* imported
OcrInit(available) ==
    [available |-> available,
     tasks |-> <<>>,
     pc |-> "stopped",
     task |-> NoTask,
     annotation_texts |-> <<>>]

-----------------------------------------------------------------------------
(* QRectF: [x, y, w, h]; w and h may be negative, as in Qt *)

QRectF(x, y, w, h) == [x |-> x, y |-> y, w |-> w, h |-> h]
NullRect == QRectF(0, 0, 0, 0)

RTop(r) == r.y
RLeft(r) == r.x
RRight(r) == r.x + r.w
RBottom(r) == r.y + r.h
RIsEmpty(r) == r.w <= 0 \/ r.h <= 0
RIsNull(r) == r.w = 0 /\ r.h = 0

\* the normalised edges Qt computes in operator& and operator|
NormL(r) == IF r.w < 0 THEN r.x + r.w ELSE r.x
NormR(r) == IF r.w < 0 THEN r.x ELSE r.x + r.w
NormT(r) == IF r.h < 0 THEN r.y + r.h ELSE r.y
NormB(r) == IF r.h < 0 THEN r.y ELSE r.y + r.h

\* QRectF.intersected
Intersected(r1, r2) ==
    IF NormL(r1) = NormR(r1) \/ NormL(r2) = NormR(r2) THEN NullRect
    ELSE IF NormL(r1) >= NormR(r2) \/ NormL(r2) >= NormR(r1) THEN NullRect
    ELSE IF NormT(r1) = NormB(r1) \/ NormT(r2) = NormB(r2) THEN NullRect
    ELSE IF NormT(r1) >= NormB(r2) \/ NormT(r2) >= NormB(r1) THEN NullRect
    ELSE QRectF(Max(NormL(r1), NormL(r2)),
                Max(NormT(r1), NormT(r2)),
                Min(NormR(r1), NormR(r2)) - Max(NormL(r1), NormL(r2)),
                Min(NormB(r1), NormB(r2)) - Max(NormT(r1), NormT(r2)))

\* a union that keeps the first rectangle: the variant C14 rules out
UnitedKeepsFirst(r1, r2) == r1

\* QRectF.united
United(r1, r2) ==
    IF RIsNull(r1) THEN r2
    ELSE IF RIsNull(r2) THEN r1
    ELSE QRectF(Min(NormL(r1), NormL(r2)),
                Min(NormT(r1), NormT(r2)),
                Max(NormR(r1), NormR(r2)) - Min(NormL(r1), NormL(r2)),
                Max(NormB(r1), NormB(r2)) - Min(NormT(r1), NormT(r2)))

-----------------------------------------------------------------------------
(* AutoAnnotationWorker: the pure steps of run() *)

\* padding without the clamp to the page: the variant C7 rules out
apply_padding_unclamped(bbox, page_rect) ==
    << bbox[1] - horizontal_padding,
       bbox[2] - vertical_padding,
       bbox[3] + horizontal_padding,
       bbox[4] + vertical_padding >>

\* apply_padding_with_boundaries(bbox, page_rect): bbox = <<x0, y0, x1, y1>>
apply_padding_with_boundaries(bbox, page_rect) ==
    << Max(page_rect.x0, bbox[1] - horizontal_padding),
       Max(page_rect.y0, bbox[2] - vertical_padding),
       Min(page_rect.x1, bbox[3] + horizontal_padding),
       Min(page_rect.y1, bbox[4] + vertical_padding) >>

\* a test that also accepts a ratio equal to the threshold: the variant C15
\* rules out
rectangles_overlap_at_threshold(rect1, rect2) ==
    LET intersection == Intersected(rect1, rect2)
        smaller_area == Min(rect1.w * rect1.h, rect2.w * rect2.h)
        inter_area == intersection.w * intersection.h
    IN  IF RIsEmpty(intersection) THEN FALSE
        ELSE IF smaller_area = 0 THEN FALSE
        ELSE IF smaller_area > 0
             THEN ThresholdDen * inter_area >= ThresholdNum * smaller_area
             ELSE ThresholdDen * inter_area <= ThresholdNum * smaller_area

\* rectangles_overlap(rect1, rect2, 0.3); the float comparison
\* inter / smaller > 0.3 is done on integers, by the sign of smaller
rectangles_overlap(rect1, rect2) ==
    LET intersection == Intersected(rect1, rect2)
        smaller_area == Min(rect1.w * rect1.h, rect2.w * rect2.h)
        inter_area == intersection.w * intersection.h
    IN  IF RIsEmpty(intersection) THEN FALSE
        ELSE IF smaller_area = 0 THEN FALSE
        ELSE IF smaller_area > 0
             THEN ThresholdDen * inter_area > ThresholdNum * smaller_area
             ELSE ThresholdDen * inter_area < ThresholdNum * smaller_area

\* the text of one block: every span's text followed by a space
RECURSIVE SpanTexts(_)
SpanTexts(spans) ==
    IF spans = <<>> THEN <<>>
    ELSE Head(spans) \o <<" ">> \o SpanTexts(Tail(spans))

RECURSIVE text_content(_)
text_content(lines) ==
    IF lines = <<>> THEN <<>>
    ELSE SpanTexts(Head(lines)) \o text_content(Tail(lines))

\* one entry of text_regions, lines 44-65
TextRegion(block, page_rect) ==
    LET padded_bbox == apply_padding_with_boundaries(block.bbox, page_rect)
        text == Strip(text_content(block.lines))
    IN  [ rect |-> QRectF(padded_bbox[1] * DisplayScale,
                          padded_bbox[2] * DisplayScale,
                          (padded_bbox[3] - padded_bbox[1]) * DisplayScale,
                          (padded_bbox[4] - padded_bbox[2]) * DisplayScale),
          text |-> text,
          confidence |-> Len(text),
          original_bbox |-> block.bbox,
          padded_bbox |-> padded_bbox,
          members |-> <<>> ]

\* the loop over blocks, lines 41-65: blocks without "lines" are skipped
RECURSIVE BuildTextRegions(_, _)
BuildTextRegions(blocks, page_rect) ==
    IF blocks = <<>> THEN <<>>
    ELSE IF Head(blocks).has_lines
         THEN <<TextRegion(Head(blocks), page_rect)>>
              \o BuildTextRegions(Tail(blocks), page_rect)
         ELSE BuildTextRegions(Tail(blocks), page_rect)

\* a sort key of rect.top() alone: the variant C12 rules out
KeyLeqTopOnly(a, b) == RTop(a.rect) <= RTop(b.rect)

\* the sort key (rect.top(), rect.left()), compared as Python compares tuples
KeyLeq(a, b) ==
    \/ RTop(a.rect) < RTop(b.rect)
    \/ RTop(a.rect) = RTop(b.rect) /\ RLeft(a.rect) <= RLeft(b.rect)

\* insert x behind every element whose key is not greater: keeps the sort stable
RECURSIVE InsertSorted(_, _)
InsertSorted(x, sorted) ==
    IF sorted = <<>> THEN <<x>>
    ELSE IF KeyLeq(Head(sorted), x)
         THEN <<Head(sorted)>> \o InsertSorted(x, Tail(sorted))
         ELSE <<x>> \o sorted

\* regions left in the order the engine reported them: the variant C2 rules out
RegionsUnsorted(regions) == regions

\* list.sort(key=lambda r: (r["rect"].top(), r["rect"].left())), a stable sort
RECURSIVE SortRegions(_)
SortRegions(regions) ==
    IF regions = <<>> THEN <<>>
    ELSE InsertSorted(regions[Len(regions)],
                      SortRegions(SubSeq(regions, 1, Len(regions) - 1)))

\* a merge that joins the two texts the other way round: the variant C13 rules out
MergedRegionTextSwapped(current_region, next_region) ==
    LET merged_rect == United(current_region.rect, next_region.rect)
    IN  [ rect |-> merged_rect,
          text |-> Strip(next_region.text \o <<" ">> \o current_region.text),
          confidence |-> Len(current_region.text),
          original_bbox |-> current_region.original_bbox,
          padded_bbox |-> << merged_rect.x \div 2, merged_rect.y \div 2,
                             (merged_rect.x + merged_rect.w) \div 2,
                             (merged_rect.y + merged_rect.h) \div 2 >>,
          members |-> current_region.members \o next_region.members ]

\* the merged region built at lines 120-129.  members is a history field the
\* code does not have: the positions, in the sorted input, of the regions folded in
MergedRegion(current_region, next_region) ==
    LET merged_rect == United(current_region.rect, next_region.rect)
    IN  [ rect |-> merged_rect,
          text |-> Strip(current_region.text \o <<" ">> \o next_region.text),
          confidence |-> Len(current_region.text),
          original_bbox |-> current_region.original_bbox,
          padded_bbox |-> << merged_rect.x \div 2, merged_rect.y \div 2,
                             (merged_rect.x + merged_rect.w) \div 2,
                             (merged_rect.y + merged_rect.h) \div 2 >>,
          members |-> current_region.members \o next_region.members ]


\* history: tag every region of the sorted input with its position
TagMembers(regions) ==
    [i \in 1..Len(regions) |-> [regions[i] EXCEPT !.members = <<i>>]]

\* a loop that also folds a region into an accumulator closed earlier: the
\* transitive clustering C6 rules out
RECURSIVE MergeLoopIntoAny(_, _, _)
MergeLoopIntoAny(rest, current_region, merged) ==
    IF rest = <<>> THEN Append(merged, current_region)
    ELSE IF rectangles_overlap(current_region.rect, Head(rest).rect)
         THEN MergeLoopIntoAny(Tail(rest),
                               MergedRegion(current_region, Head(rest)), merged)
         ELSE IF \E k \in 1..Len(merged) :
                     rectangles_overlap(merged[k].rect, Head(rest).rect)
              THEN LET k == CHOOSE k \in 1..Len(merged) :
                                rectangles_overlap(merged[k].rect, Head(rest).rect)
                   IN  MergeLoopIntoAny(Tail(rest), current_region,
                           [merged EXCEPT ![k] = MergedRegion(@, Head(rest))])
              ELSE MergeLoopIntoAny(Tail(rest), Head(rest),
                                    Append(merged, current_region))

\* the for loop of merge_overlapping_regions, lines 118-133
RECURSIVE MergeLoop(_, _, _)
MergeLoop(rest, current_region, merged) ==
    IF rest = <<>> THEN Append(merged, current_region)
    ELSE IF rectangles_overlap(current_region.rect, Head(rest).rect)
         THEN MergeLoop(Tail(rest), MergedRegion(current_region, Head(rest)), merged)
         ELSE MergeLoop(Tail(rest), Head(rest), Append(merged, current_region))

\* merge_overlapping_regions(regions, page_rect)
merge_overlapping_regions(regions) ==
    IF regions = <<>> THEN regions
    ELSE LET sorted == TagMembers(SortRegions(regions))
         IN  MergeLoop(Tail(sorted), Head(sorted), <<>>)

\* a colour indexed by the number instead of the number minus one: the
\* variant C16 rules out
AnnotationColorByNumber(i, region, page_num) ==
    [ number |-> i + 1,
      page |-> page_num,
      rect |-> region.rect,
      color |-> COLORS[((i + 1) % Len(COLORS)) + 1],
      auto_detected |-> TRUE,
      detected_text |-> region.text,
      selected |-> TRUE,
      has_padding |-> TRUE ]

\* the annotation built at lines 75-89 for merged_regions[i] (i counts from 0)
Annotation(i, region, page_num) ==
    [ number |-> i + 1,
      page |-> page_num,
      rect |-> region.rect,
      color |-> COLORS[(i % Len(COLORS)) + 1],
      auto_detected |-> TRUE,
      detected_text |-> region.text,
      selected |-> TRUE,
      has_padding |-> TRUE ]

\* a filter that keeps a text of MinTextLen characters: the variant C11 rules out
RECURSIVE BuildAnnotationsFromTwo(_, _, _)
BuildAnnotationsFromTwo(merged_regions, i, page_num) ==
    IF i >= Len(merged_regions) THEN <<>>
    ELSE IF Len(merged_regions[i + 1].text) >= MinTextLen
         THEN <<Annotation(i, merged_regions[i + 1], page_num)>>
              \o BuildAnnotationsFromTwo(merged_regions, i + 1, page_num)
         ELSE BuildAnnotationsFromTwo(merged_regions, i + 1, page_num)

\* the loop of lines 73-90 over enumerate(merged_regions), from index i on
RECURSIVE BuildAnnotations(_, _, _)
BuildAnnotations(merged_regions, i, page_num) ==
    IF i >= Len(merged_regions) THEN <<>>
    ELSE IF Len(merged_regions[i + 1].text) > MinTextLen
         THEN <<Annotation(i, merged_regions[i + 1], page_num)>>
              \o BuildAnnotations(merged_regions, i + 1, page_num)
         ELSE BuildAnnotations(merged_regions, i + 1, page_num)

-----------------------------------------------------------------------------
(* AutoAnnotationWorker: the thread *)

NoPageRect == [x0 |-> 0, y0 |-> 0, x1 |-> 0, y1 |-> 0]

\* __init__(pdf_path, page_num), and the thread's position before start().
\* pc ("start" until run() has returned, then "done"), doc, page_rect,
\* text_regions and merged_regions are the locals of run();
\* raised (the call that raised, if any) and emitted (the signals emitted so
\* far) are history fields
NewWorker(path, page_num) ==
    [ pdf_path |-> path,
      page_num |-> page_num,
      detected_annotations |-> <<>>,
      pc |-> "start",
      doc |-> "none",
      page_rect |-> NoPageRect,
      text_regions |-> <<>>,
      merged_regions |-> <<>>,
      raised |-> "none",
      emitted |-> <<>> ]

Signal(sig, w, value, msg, payload) ==
    [sig |-> sig, w |-> w, value |-> value, msg |-> msg, payload |-> payload]

Progress(w, value, msg) == Signal("progress_updated", w, value, msg, <<>>)

\* an except block without the finally block: the variant C9 rules out
RunRaisedNoFinally(me, w, call, doc, sigs) ==
    [me EXCEPT !.pc = "done", !.raised = call, !.doc = doc,
               !.emitted = sigs \o << Progress(w, 0, "Error") >>]

\* the except and finally blocks, lines 98-101: one error message, then finished
RunRaised(me, w, call, doc, sigs) ==
    [me EXCEPT !.pc = "done", !.raised = call, !.doc = doc,
               !.emitted = sigs \o << Progress(w, 0, "Error"),
                                      Signal("finished", w, 0, "", <<>>) >>]

\* a run that hands over its candidates as it goes, the first one ahead of
\* the whole list: the streaming C20 rules out
RunCompletedStreamed(me, w, page) ==
    LET text_regions == BuildTextRegions(page.blocks, page.rect)
        merged_regions == SortRegions(merge_overlapping_regions(text_regions))
        detected_annotations ==
            me.detected_annotations \o BuildAnnotations(merged_regions, 0, me.page_num)
    IN  [me EXCEPT !.pc = "done",
                   !.doc = "closed",
                   !.page_rect = page.rect,
                   !.text_regions = SortRegions(text_regions),
                   !.merged_regions = merged_regions,
                   !.detected_annotations = detected_annotations,
                   !.emitted =
                       << Progress(w, 10, "Opening PDF..."),
                          Progress(w, 30, "Detecting text blocks..."),
                          Progress(w, 60, "Found regions..."),
                          Progress(w, 70, "Merged regions...") >>
                       \o (IF Len(detected_annotations) > 1
                           THEN << Signal("annotations_found", w, 0, "",
                                          SubSeq(detected_annotations, 1, 1)) >>
                           ELSE <<>>)
                       \o << Progress(w, 90, "Processing complete..."),
                             Signal("annotations_found", w, 0, "", detected_annotations),
                             Progress(w, 100, "Auto-annotation complete!"),
                             Signal("finished", w, 0, "", <<>>) >>]

\* a run that takes the except branch when it has no candidate to emit: the
\* variant C18 rules out
RunCompletedEmptyIsError(me, w, page) ==
    LET text_regions == BuildTextRegions(page.blocks, page.rect)
        merged_regions == SortRegions(merge_overlapping_regions(text_regions))
        detected_annotations ==
            me.detected_annotations \o BuildAnnotations(merged_regions, 0, me.page_num)
    IN  [me EXCEPT !.pc = "done",
                   !.doc = IF detected_annotations = <<>> THEN "open" ELSE "closed",
                   !.page_rect = page.rect,
                   !.text_regions = SortRegions(text_regions),
                   !.merged_regions = merged_regions,
                   !.detected_annotations = detected_annotations,
                   !.emitted =
                       << Progress(w, 10, "Opening PDF..."),
                          Progress(w, 30, "Detecting text blocks..."),
                          Progress(w, 60, "Found regions..."),
                          Progress(w, 70, "Merged regions...") >>
                       \o (IF detected_annotations = <<>>
                           THEN << Progress(w, 0, "Error") >>
                           ELSE << Progress(w, 90, "Processing complete..."),
                                   Signal("annotations_found", w, 0, "",
                                          detected_annotations),
                                   Progress(w, 100, "Auto-annotation complete!") >>)
                       \o << Signal("finished", w, 0, "", <<>>) >>]

\* a detected_annotations list shared by all workers instead of one made by
\* each __init__: the variant C17 rules out
RunCompletedSharedList(me, w, page) ==
    LET text_regions == BuildTextRegions(page.blocks, page.rect)
        merged_regions == SortRegions(merge_overlapping_regions(text_regions))
        shared == IF w > 1 THEN workers[w - 1].detected_annotations ELSE <<>>
        detected_annotations ==
            shared \o BuildAnnotations(merged_regions, 0, me.page_num)
    IN  [me EXCEPT !.pc = "done",
                   !.doc = "closed",
                   !.page_rect = page.rect,
                   !.text_regions = SortRegions(text_regions),
                   !.merged_regions = merged_regions,
                   !.detected_annotations = detected_annotations,
                   !.emitted =
                       << Progress(w, 10, "Opening PDF..."),
                          Progress(w, 30, "Detecting text blocks..."),
                          Progress(w, 60, "Found regions..."),
                          Progress(w, 70, "Merged regions..."),
                          Progress(w, 90, "Processing complete..."),
                          Signal("annotations_found", w, 0, "", detected_annotations),
                          Progress(w, 100, "Auto-annotation complete!"),
                          Signal("finished", w, 0, "", <<>>) >>]

\* the try block run to its end, lines 33-96, then finished, lines 100-101
RunCompleted(me, w, page) ==
    LET text_regions == BuildTextRegions(page.blocks, page.rect)
        merged_regions == SortRegions(merge_overlapping_regions(text_regions))
        detected_annotations ==
            me.detected_annotations \o BuildAnnotations(merged_regions, 0, me.page_num)
    IN  [me EXCEPT !.pc = "done",
                   !.doc = "closed",
                   !.page_rect = page.rect,
                   !.text_regions = SortRegions(text_regions),
                   !.merged_regions = merged_regions,
                   !.detected_annotations = detected_annotations,
                   !.emitted =
                       << Progress(w, 10, "Opening PDF..."),
                          Progress(w, 30, "Detecting text blocks..."),
                          Progress(w, 60, "Found regions..."),
                          Progress(w, 70, "Merged regions..."),
                          Progress(w, 90, "Processing complete..."),
                          Signal("annotations_found", w, 0, "", detected_annotations),
                          Progress(w, 100, "Auto-annotation complete!"),
                          Signal("finished", w, 0, "", <<>>) >>]

\* run(), lines 31-101, for each way its calls into the PDF engine can end:
\* fitz.open raises, doc[page_num] raises, get_text raises, or none does
RunOutcome(me, w, outcome) ==
    LET page == files[me.pdf_path][me.page_num + 1]
    IN  CASE outcome = "open_raises" ->
                RunRaised(me, w, "open", "none",
                          << Progress(w, 10, "Opening PDF...") >>)
          [] outcome = "page_raises" ->
                RunRaised(me, w, "page", "open",
                          << Progress(w, 10, "Opening PDF...") >>)
          [] outcome = "get_text_raises" ->
                RunRaised([me EXCEPT !.page_rect = page.rect], w, "get_text", "open",
                          << Progress(w, 10, "Opening PDF..."),
                             Progress(w, 30, "Detecting text blocks...") >>)
          [] OTHER -> RunCompleted(me, w, page)

\* the thread of worker w: run() from start() to its return.  run() shares
\* nothing with the main thread but the signals it emits, which are queued to
\* the main thread in the order of emission
W_Run(w) ==
    /\ workers[w].pc = "start"
    /\ \E outcome \in {"ok", "open_raises", "page_raises", "get_text_raises"} :
        LET me == workers[w]
            readable == /\ me.pdf_path \in DOMAIN files
                        /\ me.page_num + 1 \in 1..Len(files[me.pdf_path])
            after == RunOutcome(me, w, outcome)
        IN  /\ outcome \in {"ok", "get_text_raises"} => readable
            /\ workers' = [workers EXCEPT ![w] = after]
            /\ events' = events \o after.emitted
    /\ UNCHANGED <<other_vars, files, gui_vars>>

-----------------------------------------------------------------------------
(* The pages the PDF engine can report *)

Txt(a, b, c) == << <<a, b, c>> >>

Block(bbox, lines) == [bbox |-> bbox, has_lines |-> TRUE, lines |-> lines]
ImageBlock(bbox) == [bbox |-> bbox, has_lines |-> FALSE, lines |-> <<>>]
PageRect(x0, y0, x1, y1) == [x0 |-> x0, y0 |-> y0, x1 |-> x1, y1 |-> y1]
Page(rect, blocks) == [rect |-> rect, blocks |-> blocks]

BoxA == <<10, 10, 50, 30>>
BoxB == <<12, 32, 55, 50>>
BoxD == <<14, 55, 57, 70>>
BoxMid == <<120, 12, 160, 30>>
BoxFar == <<120, 150, 160, 170>>
BoxOff == <<215, 150, 240, 170>>
BoxEdge == <<170, 180, 195, 195>>
BoxWide == <<2, 4, 90, 60>>
BoxTail == <<80, 50, 100, 70>>
BoxLow == <<20, 90, 40, 91>>

\* the blocks a page of the detection specification is drawn from: one line
\* with one span, but for BoxB (two spans) and BoxD (two lines)
BlockChoices ==
    { Block(BoxA, <<Txt("a", "b", "c")>>),
      Block(BoxB, << << <<"d">>, <<"e">> >> >>),
      Block(BoxD, << << <<"f">> >>, << <<"g", "h">> >> >>),
      Block(BoxMid, <<Txt("i", "j", "k")>>),
      Block(BoxFar, <<Txt("l", "m", "n")>>),
      Block(BoxOff, <<Txt("o", "p", "q")>>),
      Block(BoxEdge, <<Txt("r", "s", "t")>>),
      Block(BoxWide, <<Txt("u", "v", "w")>>),
      Block(BoxTail, <<Txt("x", "y", "z")>>),
      Block(BoxLow, <<Txt("1", "2", "3")>>),
      Block(BoxA, << << <<"a">> >> >>),
      Block(BoxFar, << << <<"a", "b">> >> >>),
      Block(BoxMid, << << <<" ">> >> >>),
      ImageBlock(BoxFar) }

PageRects == { PageRect(0, 0, 200, 200), PageRect(0, 0, 100, 120) }

BlockSeqs(n) == UNION { [1..k -> BlockChoices] : k \in 0..n }

-----------------------------------------------------------------------------
(* The detection specification: one run of the worker on an arbitrary page *)

RunInit ==
    /\ \E rect \in PageRects, blocks \in BlockSeqs(MaxBlocks) :
          files = [p \in {"a.pdf"} |-> <<Page(rect, blocks)>>]
    /\ workers = <<NewWorker("a.pdf", 0)>>
    /\ events = <<>>
    /\ main_pc = "idle"
    /\ pdf_path = "a.pdf"
    /\ auto_worker = 1
    /\ auto_annotations_temp = <<>>
    /\ auto_controls_visible = FALSE
    /\ auto_annotate_btn = FALSE
    /\ progress_bar = [visible |-> TRUE, value |-> 0]
    /\ viewer = [pdf_doc |-> [path |-> "a.pdf", closed |-> FALSE], current_page |-> 0]
    /\ cancelled = {}
    /\ finished_runs = <<0>>
    /\ pure_call = NoCall
    /\ annotations = <<>>
    /\ viewer_annotations = <<>>
    /\ scene = {}
    /\ modes = NoModes
    /\ ocr = OcrInit(FALSE)

RunNext == \E w \in 1..Len(workers) : W_Run(w)

SpecRun == RunInit /\ [][RunNext]_vars

-----------------------------------------------------------------------------
(* The two-runs specification: two workers constructed for the same page *)

TwoRunsInit ==
    /\ \E rect \in PageRects, blocks \in BlockSeqs(MaxTwoRunBlocks) :
          files = [p \in {"a.pdf"} |-> <<Page(rect, blocks)>>]
    /\ workers = <<NewWorker("a.pdf", 0), NewWorker("a.pdf", 0)>>
    /\ events = <<>>
    /\ main_pc = "idle"
    /\ pdf_path = "a.pdf"
    /\ auto_worker = 2
    /\ auto_annotations_temp = <<>>
    /\ auto_controls_visible = FALSE
    /\ auto_annotate_btn = FALSE
    /\ progress_bar = [visible |-> TRUE, value |-> 0]
    /\ viewer = [pdf_doc |-> [path |-> "a.pdf", closed |-> FALSE], current_page |-> 0]
    /\ cancelled = {}
    /\ finished_runs = <<0, 0>>
    /\ pure_call = NoCall
    /\ annotations = <<>>
    /\ viewer_annotations = <<>>
    /\ scene = {}
    /\ modes = NoModes
    /\ ocr = OcrInit(FALSE)

TwoRunsNext == \E w \in 1..Len(workers) : W_Run(w)

SpecTwoRuns == TwoRunsInit /\ [][TwoRunsNext]_vars

-----------------------------------------------------------------------------
(* The overlap specification: rectangles_overlap called on a pair of rects *)

\* a square of side 20 moved right by 2 * shift: it shares (10 - shift) / 10 of
\* its area with the square at shift 0
Shifted(shift) == QRectF(DisplayScale * shift, 0, 20, 20)

\* the rects a run can hand to rectangles_overlap: squares that share every
\* tenth of their area, a small rect inside them, rects without area, rects of
\* negative width or height (padded boxes of blocks beyond the page), a far one
RectChoices ==
    { Shifted(shift) : shift \in 0..MaxShift }
    \cup { QRectF(4, 4, 4, 4), QRectF(6, 6, 0, 10), NullRect,
           QRectF(20, 20, -20, -20), QRectF(20, 0, -20, 20),
           QRectF(14, 0, 40, 20), QRectF(100, 100, 10, 10) }

OverlapInit ==
    /\ \E rect1 \in RectChoices, rect2 \in RectChoices :
          pure_call = [fn |-> "rectangles_overlap", rect1 |-> rect1,
                       rect2 |-> rect2, returned |-> FALSE, ret |-> FALSE]
    /\ annotations = <<>>
    /\ viewer_annotations = <<>>
    /\ scene = {}
    /\ modes = NoModes
    /\ ocr = OcrInit(FALSE)
    /\ files = [p \in {} |-> <<>>]
    /\ workers = <<>>
    /\ events = <<>>
    /\ main_pc = "idle"
    /\ pdf_path = ""
    /\ auto_worker = 0
    /\ auto_annotations_temp = <<>>
    /\ auto_controls_visible = FALSE
    /\ auto_annotate_btn = FALSE
    /\ progress_bar = [visible |-> FALSE, value |-> 0]
    /\ viewer = [pdf_doc |-> [path |-> "", closed |-> FALSE], current_page |-> 0]
    /\ cancelled = {}
    /\ finished_runs = <<>>

\* the call returns
OverlapReturns ==
    /\ pure_call.fn = "rectangles_overlap"
    /\ ~pure_call.returned
    /\ pure_call' = [pure_call EXCEPT
                        !.returned = TRUE,
                        !.ret = rectangles_overlap(pure_call.rect1, pure_call.rect2)]
    /\ UNCHANGED <<list_vars, files, workers, events, gui_vars>>

OverlapNext == OverlapReturns

SpecOverlap == OverlapInit /\ [][OverlapNext]_vars

-----------------------------------------------------------------------------
(* The numbering specification: the loop of lines 73-90 on a list of merged *)
(* regions longer than the palette                                         *)

\* the k-th of a list of merged regions sorted top to bottom, with a text of
\* 3 characters (kept by the filter) or of 2 (dropped)
RegionAt(k, long) ==
    [ rect |-> QRectF(0, 100 * k, 60, 80),
      text |-> IF long THEN <<"a", "b", "c">> ELSE <<"a", "b">>,
      confidence |-> IF long THEN 3 ELSE 2,
      original_bbox |-> <<10, 50 * k + 15, 20, 50 * k + 25>>,
      padded_bbox |-> <<0, 50 * k, 30, 50 * k + 40>>,
      members |-> <<k>> ]

RegionLists ==
    UNION { { [k \in 1..n |-> RegionAt(k, longs[k])] : longs \in [1..n -> BOOLEAN] }
            : n \in 0..MaxRegions }

NumberInit ==
    /\ \E merged_regions \in RegionLists :
          pure_call = [fn |-> "number", merged_regions |-> merged_regions,
                       returned |-> FALSE, detected_annotations |-> <<>>]
    /\ annotations = <<>>
    /\ viewer_annotations = <<>>
    /\ scene = {}
    /\ modes = NoModes
    /\ ocr = OcrInit(FALSE)
    /\ files = [p \in {} |-> <<>>]
    /\ workers = <<>>
    /\ events = <<>>
    /\ main_pc = "idle"
    /\ pdf_path = ""
    /\ auto_worker = 0
    /\ auto_annotations_temp = <<>>
    /\ auto_controls_visible = FALSE
    /\ auto_annotate_btn = FALSE
    /\ progress_bar = [visible |-> FALSE, value |-> 0]
    /\ viewer = [pdf_doc |-> [path |-> "", closed |-> FALSE], current_page |-> 0]
    /\ cancelled = {}
    /\ finished_runs = <<>>

\* the loop has run over the whole list
NumberReturns ==
    /\ pure_call.fn = "number"
    /\ ~pure_call.returned
    /\ pure_call' = [pure_call EXCEPT
                        !.returned = TRUE,
                        !.detected_annotations =
                            BuildAnnotations(pure_call.merged_regions, 0, 0)]
    /\ UNCHANGED <<list_vars, files, workers, events, gui_vars>>

NumberNext == NumberReturns

SpecNumber == NumberInit /\ [][NumberNext]_vars

-----------------------------------------------------------------------------
(* BalloonTool and PDFViewer: the main thread *)

NoDoc == [path |-> "", closed |-> FALSE]

\* PDFViewer.get_page_info needs an open document
ViewerReady == viewer.pdf_doc.path # "" /\ ~viewer.pdf_doc.closed

PageCount == Len(files[viewer.pdf_doc.path])

\* workers whose run has not emitted annotations_found yet and has not ended
InFlight(w) ==
    /\ workers[w].pc # "done"
    /\ \A k \in 1..Len(workers[w].emitted) :
          workers[w].emitted[k].sig # "annotations_found"

\* cancel_auto_annotation(), lines 1186-1190
cancel_auto_annotation ==
    /\ auto_controls_visible' = FALSE
    /\ auto_annotations_temp' = <<>>
    /\ cancelled' = cancelled \cup {w \in 1..Len(workers) : InFlight(w)}

\* start_auto_annotation(), lines 1083-1098
\* (no guard but pdf_path).  A worker that self.auto_worker no longer names
\* stays alive while its run() executes: its thread runs on and the signals
\* it emits stay connected and queued
start_auto_annotation ==
    /\ main_pc = "idle"
    /\ pdf_path # ""
    /\ ViewerReady
    /\ Len(workers) < MaxWorkers
    /\ auto_annotate_btn' = FALSE
    /\ progress_bar' = [visible |-> TRUE, value |-> 0]
    /\ workers' = Append(workers, NewWorker(pdf_path, viewer.current_page))
    /\ auto_worker' = Len(workers) + 1
    /\ finished_runs' = Append(finished_runs, 0)
    /\ UNCHANGED <<other_vars, files, events, main_pc, pdf_path, auto_annotations_temp,
                   auto_controls_visible, viewer, cancelled>>

\* the Auto Detect button, line 802: clickable only while enabled
AutoDetectClicked ==
    /\ auto_annotate_btn
    /\ start_auto_annotation

\* the toolbar action "Auto Annotate", lines 378-380: never disabled
AutoActionTriggered == start_auto_annotation

\* an annotation record carries the identity of its dict in obj, since the
\* two lists share their dicts: every dict is appended to the viewer's list
\* when it is created and stays there until another document is opened, so
\* its position there names it; this is the identity of the k-th dict
\* created next
NewObj(k) == Len(viewer_annotations) + k

\* redraw_annotations_for_current_page(annotations), pdf_viewer.py lines
\* 405-431: the items of the scene after the call, one per annotation of
\* the page, with its index in the list it was given
Redraw(anns, current_page, deletion) ==
    { [annotation_index |-> i - 1, obj |-> anns[i].obj, deletion_mode |-> deletion] :
        i \in { j \in 1..Len(anns) : anns[j].page = current_page } }

\* d[k] = v and del d[k] of a dict
Put(d, k, v) == [x \in DOMAIN d \cup {k} |-> IF x = k THEN v ELSE d[x]]
Drop(d, k) == [x \in DOMAIN d \ {k} |-> d[x]]

\* the OCR work not delivered yet: tasks queued, the task the worker has
\* popped, and the signals of the worker in the event queue
OcrBacklog ==
    Len(ocr.tasks) + (IF ocr.task = NoTask THEN 0 ELSE 1)
    + Cardinality({ i \in 1..Len(events) :
                      events[i].sig \in {"ocr_completed", "ocr_failed"} })

\* OCRManager.process_annotation_ocr, ocr_processor.py lines 208-223: the
\* manager and its worker after the call
process_annotation_ocr(o, annotation_number, path, page_num, rect, obj) ==
    IF ~o.available
    THEN [o EXCEPT !.annotation_texts =
                      Put(@, annotation_number, [kind |-> "unavailable", obj |-> obj])]
    ELSE [o EXCEPT
            !.tasks = Append(@, [annotation_number |-> annotation_number,
                                 pdf_path |-> path, page_num |-> page_num,
                                 rect |-> rect, obj |-> obj]),
            !.annotation_texts =
                Put(@, annotation_number, [kind |-> "pending", obj |-> obj]),
            !.pc = IF @ = "stopped" THEN "running" ELSE @]

\* select_pdf / load_pdf(file_path), lines 1019-1042, with PDFViewer.load_pdf,
\* pdf_viewer.py lines 302-314: fitz.open can raise after the old document
\* was closed
load_pdf(file_path, opens) ==
    /\ main_pc = "idle"
    /\ IF opens
       THEN /\ viewer' = [pdf_doc |-> [path |-> file_path, closed |-> FALSE],
                          current_page |-> 0]
            /\ pdf_path' = file_path
            /\ scene' = Redraw(viewer_annotations, 0, modes.viewer_deletion_mode)
            /\ annotations' = <<>>
            /\ viewer_annotations' = <<>>
            /\ auto_annotate_btn' = TRUE
       ELSE /\ viewer' = [viewer EXCEPT !.pdf_doc.closed = (viewer.pdf_doc.path # "")]
            /\ UNCHANGED <<pdf_path, annotations, viewer_annotations, scene,
                           auto_annotate_btn>>
    /\ UNCHANGED <<pure_call, modes, ocr, files, workers, events, main_pc, auto_worker,
                   auto_annotations_temp, auto_controls_visible, progress_bar,
                   cancelled, finished_runs>>

\* prev_page(), lines 1055-1058, with PDFViewer.prev_page
prev_page ==
    /\ main_pc = "idle"
    /\ ViewerReady
    /\ viewer.current_page > 0
    /\ viewer' = [viewer EXCEPT !.current_page = @ - 1]
    /\ scene' = Redraw(viewer_annotations, viewer.current_page - 1,
                       modes.viewer_deletion_mode)
    /\ cancel_auto_annotation
    /\ UNCHANGED <<pure_call, annotations, viewer_annotations, modes, ocr, files,
                   workers, events, main_pc, pdf_path, auto_worker,
                   auto_annotate_btn, progress_bar, finished_runs>>

\* next_page(), lines 1060-1063, with PDFViewer.next_page
next_page ==
    /\ main_pc = "idle"
    /\ ViewerReady
    /\ viewer.current_page < PageCount - 1
    /\ viewer' = [viewer EXCEPT !.current_page = @ + 1]
    /\ scene' = Redraw(viewer_annotations, viewer.current_page + 1,
                       modes.viewer_deletion_mode)
    /\ cancel_auto_annotation
    /\ UNCHANGED <<pure_call, annotations, viewer_annotations, modes, ocr, files,
                   workers, events, main_pc, pdf_path, auto_worker,
                   auto_annotate_btn, progress_bar, finished_runs>>

\* the Cancel button of the preview controls, lines 981-984: inside
\* auto_controls, so clickable only while they are visible
CancelClicked ==
    /\ main_pc = "idle"
    /\ auto_controls_visible
    /\ cancel_auto_annotation
    /\ UNCHANGED <<other_vars, files, workers, events, main_pc, pdf_path, auto_worker,
                   auto_annotate_btn, progress_bar, viewer, finished_runs>>

\* update_auto_progress(progress, message), lines 1100-1102
update_auto_progress ==
    /\ main_pc = "idle"
    /\ events # <<>>
    /\ Head(events).sig = "progress_updated"
    /\ events' = Tail(events)
    /\ progress_bar' = [progress_bar EXCEPT !.value = Head(events).value]
    /\ UNCHANGED <<other_vars, files, workers, main_pc, pdf_path, auto_worker,
                   auto_annotations_temp, auto_controls_visible,
                   auto_annotate_btn, viewer, cancelled, finished_runs>>

\* a preview slot that commits the delivered batch to the permanent list:
\* the variant C19 rules out
show_auto_annotations_preview_commits ==
    /\ main_pc = "idle"
    /\ events # <<>>
    /\ Head(events).sig = "annotations_found"
    /\ events' = Tail(events)
    /\ auto_annotations_temp' = Head(events).payload
    /\ auto_controls_visible' = TRUE
    /\ annotations' = annotations \o [i \in 1..Len(Head(events).payload) |->
                          [obj |-> NewObj(i),
                           number |-> Len(annotations) + i,
                           page |-> Head(events).payload[i].page,
                           rect |-> Head(events).payload[i].rect,
                           color |-> Head(events).payload[i].color,
                           origin |-> "auto"]]
    /\ UNCHANGED <<pure_call, viewer_annotations, scene, modes, ocr, files,
                   workers, main_pc, pdf_path, auto_worker,
                   auto_annotate_btn, progress_bar, viewer, cancelled,
                   finished_runs>>

\* show_auto_annotations_preview(detected_annotations), lines 1104-1108
show_auto_annotations_preview ==
    /\ main_pc = "idle"
    /\ events # <<>>
    /\ Head(events).sig = "annotations_found"
    /\ events' = Tail(events)
    /\ auto_annotations_temp' = Head(events).payload
    /\ auto_controls_visible' = TRUE
    /\ UNCHANGED <<other_vars, files, workers, main_pc, pdf_path, auto_worker,
                   auto_annotate_btn, progress_bar, viewer, cancelled,
                   finished_runs>>

\* a finished slot that forgets setEnabled(True): the variant C10 rules out
auto_annotation_finished_keeps_disabled ==
    /\ main_pc = "idle"
    /\ events # <<>>
    /\ Head(events).sig = "finished"
    /\ events' = Tail(events)
    /\ progress_bar' = [progress_bar EXCEPT !.visible = FALSE]
    /\ finished_runs' = [finished_runs EXCEPT ![Head(events).w] = @ + 1]
    /\ IF auto_worker = 0
       THEN UNCHANGED <<auto_worker, main_pc>>
       ELSE IF workers[auto_worker].pc = "done"
            THEN auto_worker' = 0 /\ UNCHANGED main_pc
            ELSE main_pc' = "waiting" /\ UNCHANGED auto_worker
    /\ UNCHANGED <<other_vars, files, workers, pdf_path, auto_annotations_temp,
                   auto_controls_visible, auto_annotate_btn, viewer, cancelled>>

\* auto_annotation_finished(), lines 1192-1198; wait() blocks the main thread
\* until the thread auto_worker names has ended
auto_annotation_finished ==
    /\ main_pc = "idle"
    /\ events # <<>>
    /\ Head(events).sig = "finished"
    /\ events' = Tail(events)
    /\ progress_bar' = [progress_bar EXCEPT !.visible = FALSE]
    /\ auto_annotate_btn' = TRUE
    /\ finished_runs' = [finished_runs EXCEPT ![Head(events).w] = @ + 1]
    /\ IF auto_worker = 0
       THEN UNCHANGED <<auto_worker, main_pc>>
       ELSE IF workers[auto_worker].pc = "done"
            THEN auto_worker' = 0 /\ UNCHANGED main_pc
            ELSE main_pc' = "waiting" /\ UNCHANGED auto_worker
    /\ UNCHANGED <<other_vars, files, workers, pdf_path, auto_annotations_temp,
                   auto_controls_visible, viewer, cancelled>>

\* auto_worker.wait() returns, lines 1197-1198
wait_returns ==
    /\ main_pc = "waiting"
    /\ workers[auto_worker].pc = "done"
    /\ auto_worker' = 0
    /\ main_pc' = "idle"
    /\ UNCHANGED <<other_vars, files, workers, events, pdf_path, auto_annotations_temp,
                   auto_controls_visible, auto_annotate_btn, progress_bar,
                   viewer, cancelled, finished_runs>>

-----------------------------------------------------------------------------
(* The application specification: the main window and its workers *)

GuiFiles ==
    [p \in {"a.pdf", "b.pdf"} |->
        IF p = "a.pdf"
        THEN << Page(PageRect(0, 0, 200, 200),
                     << Block(BoxA, <<Txt("a", "b", "c")>>),
                        Block(BoxFar, <<Txt("l", "m", "n")>>) >>),
                Page(PageRect(0, 0, 200, 200),
                     << Block(BoxMid, << << <<" ">> >> >>),
                        Block(BoxEdge, <<Txt("r", "s", "t")>>) >>) >>
        ELSE << Page(PageRect(0, 0, 100, 120), <<>>) >>]

\* BalloonTool.__init__, lines 147-164, and PDFViewer.__init__
Init ==
    /\ files = GuiFiles
    /\ workers = <<>>
    /\ events = <<>>
    /\ main_pc = "idle"
    /\ pdf_path = ""
    /\ auto_worker = 0
    /\ auto_annotations_temp = <<>>
    /\ auto_controls_visible = FALSE
    /\ auto_annotate_btn = FALSE
    /\ progress_bar = [visible |-> FALSE, value |-> 0]
    /\ viewer = [pdf_doc |-> NoDoc, current_page |-> 0]
    /\ cancelled = {}
    /\ finished_runs = <<>>
    /\ pure_call = NoCall
    /\ annotations = <<>>
    /\ viewer_annotations = <<>>
    /\ scene = {}
    /\ modes = NoModes
    /\ ocr = OcrInit(FALSE)

Next ==
    \/ \E file_path \in DOMAIN files, opens \in BOOLEAN : load_pdf(file_path, opens)
    \/ AutoDetectClicked
    \/ AutoActionTriggered
    \/ prev_page
    \/ next_page
    \/ CancelClicked
    \/ update_auto_progress
    \/ show_auto_annotations_preview
    \/ auto_annotation_finished
    \/ wait_returns
    \/ \E w \in 1..Len(workers) : W_Run(w)

Spec == Init /\ [][Next]_vars

\* the event loop delivers queued signals, a started thread runs, and wait()
\* returns once the thread has ended; the user is under no obligation
DeliverEvent ==
    \/ update_auto_progress
    \/ show_auto_annotations_preview
    \/ auto_annotation_finished

SpecFair ==
    /\ Spec
    /\ WF_vars(DeliverEvent)
    /\ WF_vars(wait_returns)
    /\ WF_vars(\E w \in 1..Len(workers) : W_Run(w))

-----------------------------------------------------------------------------
(* The permanent annotation list and the handlers that change it *)

\* BalloonTool.current_color, line 151
current_color == "#007bff"

\* an entry of BalloonTool.annotations; origin tells the entries made by
\* add_balloon_from_selection ("manual") from the committed candidates
\* ("auto", which keep detected_text and has_padding); obj is the identity
\* of the dict
PermanentAnnotation(obj, number, page, rect, color, origin) ==
    [obj |-> obj, number |-> number, page |-> page, rect |-> rect,
     color |-> color, origin |-> origin]

\* the loop over the committed annotations, lines 1178-1180
RECURSIVE QueueAll(_, _, _, _)
QueueAll(o, path, anns, i) ==
    IF i > Len(anns)
    THEN o
    ELSE QueueAll(process_annotation_ocr(o, anns[i].number, path, anns[i].page,
                                         anns[i].rect, anns[i].obj),
                  path, anns, i + 1)

\* add_balloon_from_selection(rect), lines 1200-1220
add_balloon_from_selection(rect) ==
    /\ main_pc = "idle"
    /\ ViewerReady
    /\ Len(annotations) < MaxAnnotations
    /\ Len(viewer_annotations) < MaxViewerAnnotations
    /\ ocr.available => OcrBacklog < MaxTasks
    /\ LET ann == PermanentAnnotation(NewObj(1), Len(annotations) + 1,
                                      viewer.current_page, rect,
                                      current_color, "manual")
       IN  /\ annotations' = Append(annotations, ann)
           /\ viewer_annotations' = Append(viewer_annotations, ann)
           /\ scene' = Redraw(annotations', viewer.current_page,
                              modes.viewer_deletion_mode)
           /\ ocr' = process_annotation_ocr(ocr, ann.number, pdf_path, ann.page,
                                            rect, ann.obj)
    /\ UNCHANGED <<pure_call, modes, files, workers, events, gui_vars>>

\* a commit that takes every candidate of the preview: the variant C27
\* rules out
IsSelectedOrNot(ann) == TRUE

IsSelected(ann) == ann.selected

\* a commit that keeps the numbers of the detection: the variant C21 rules out
CommittedWithDetectionNumbers(selected, base_number) ==
    [i \in 1..Len(selected) |->
        [obj |-> NewObj(i), number |-> selected[i].number,
         page |-> selected[i].page, rect |-> selected[i].rect,
         color |-> selected[i].color, origin |-> "auto"]]

\* the selected candidates as apply_selected_auto_annotations commits them,
\* lines 1163-1170: numbered from base_number on, coloured by their new number
Committed(selected, base_number) ==
    [i \in 1..Len(selected) |->
        PermanentAnnotation(NewObj(i), base_number + i - 1,
                            selected[i].page, selected[i].rect,
                            COLORS[((base_number + i - 2) % Len(COLORS)) + 1],
                            "auto")]

\* apply_selected_auto_annotations(), lines 1156-1184; the Apply button is
\* inside auto_controls
apply_selected_auto_annotations ==
    /\ main_pc = "idle"
    /\ auto_controls_visible
    /\ LET selected == SelectSeq(auto_annotations_temp, IsSelected)
       IN  IF selected = <<>>
           THEN UNCHANGED <<annotations, viewer_annotations, scene, ocr,
                            auto_annotations_temp, auto_controls_visible,
                            cancelled>>
           ELSE /\ Len(annotations) + Len(selected) <= MaxAnnotations
                /\ Len(viewer_annotations) + Len(selected) <= MaxViewerAnnotations
                /\ ocr.available => OcrBacklog + Len(selected) <= MaxTasks
                /\ LET committed == Committed(selected, Len(annotations) + 1)
                   IN  /\ annotations' = annotations \o committed
                       /\ viewer_annotations' = viewer_annotations \o committed
                       /\ scene' = Redraw(annotations', viewer.current_page,
                                          modes.viewer_deletion_mode)
                       /\ ocr' = QueueAll(ocr, pdf_path, committed, 1)
                /\ cancel_auto_annotation
    /\ UNCHANGED <<pure_call, modes, files, workers, events, main_pc, pdf_path,
                   auto_worker, auto_annotate_btn, progress_bar, viewer,
                   finished_runs>>

\* select_all_auto_annotations(), lines 1144-1148
select_all_auto_annotations ==
    /\ main_pc = "idle"
    /\ auto_controls_visible
    /\ auto_annotations_temp' =
          [i \in 1..Len(auto_annotations_temp) |->
              [auto_annotations_temp[i] EXCEPT !.selected = TRUE]]
    /\ UNCHANGED <<other_vars, files, workers, events, main_pc, pdf_path,
                   auto_worker, auto_controls_visible, auto_annotate_btn,
                   progress_bar, viewer, cancelled, finished_runs>>

\* deselect_all_auto_annotations(), lines 1150-1154
deselect_all_auto_annotations ==
    /\ main_pc = "idle"
    /\ auto_controls_visible
    /\ auto_annotations_temp' =
          [i \in 1..Len(auto_annotations_temp) |->
              [auto_annotations_temp[i] EXCEPT !.selected = FALSE]]
    /\ UNCHANGED <<other_vars, files, workers, events, main_pc, pdf_path,
                   auto_worker, auto_controls_visible, auto_annotate_btn,
                   progress_bar, viewer, cancelled, finished_runs>>

\* annotations.pop(idx) and the renumbering loop, lines 1331-1338 (idx from 0)
Popped(anns, idx) ==
    LET rest == SubSeq(anns, 1, idx) \o SubSeq(anns, idx + 2, Len(anns))
    IN  [i \in 1..Len(rest) |-> [rest[i] EXCEPT !.number = i]]

\* the list after annotations.pop(idx), line 1331, before the renumbering
Remaining(anns, idx) == SubSeq(anns, 1, idx) \o SubSeq(anns, idx + 2, Len(anns))

\* the renumbering loop as the dicts of another list see it: a dict that is
\* still in the permanent list has its new number, any other dict is as it was
Shared(others, anns) ==
    [i \in 1..Len(others) |->
        IF \E j \in 1..Len(anns) : anns[j].obj = others[i].obj
        THEN [others[i] EXCEPT
                !.number = (CHOOSE j \in 1..Len(anns) : anns[j].obj = others[i].obj)]
        ELSE others[i]]

\* the re-keying of annotation_texts in the renumbering loop, lines 1336-1342:
\* rest is the list before the loop, i the position the loop is at
RECURSIVE Rekeyed(_, _, _)
Rekeyed(texts, rest, i) ==
    IF i > Len(rest)
    THEN texts
    ELSE LET old_number == rest[i].number
         IN  Rekeyed(IF old_number \in DOMAIN texts
                     THEN Put(Drop(texts, old_number), i, texts[old_number])
                     ELSE texts,
                     rest, i + 1)

\* annotation_texts after a delete, lines 1334-1342
TextsAfterDelete(texts, anns, idx) ==
    Rekeyed(IF anns[idx + 1].number \in DOMAIN texts
            THEN Drop(texts, anns[idx + 1].number)
            ELSE texts,
            Remaining(anns, idx), 1)

\* a delete that does not wait for the answer to its question: the variant
\* C30 rules out
delete_annotation_unconfirmed(idx, reply_yes) ==
    /\ main_pc = "idle"
    /\ IF idx < 0 \/ idx >= Len(annotations)
       THEN UNCHANGED <<annotations, viewer_annotations, scene, ocr>>
       ELSE /\ annotations' = Popped(annotations, idx)
            /\ viewer_annotations' = Shared(viewer_annotations, annotations')
            /\ scene' = Redraw(annotations', viewer.current_page,
                               modes.viewer_deletion_mode)
            /\ ocr' = [ocr EXCEPT !.annotation_texts =
                                      TextsAfterDelete(@, annotations, idx)]
    /\ UNCHANGED <<pure_call, modes, files, workers, events, gui_vars>>

\* delete_annotation_by_index(idx), lines 1315-1347, with the answer the user
\* gives to the confirmation dialog
delete_annotation_by_index(idx, reply_yes) ==
    /\ main_pc = "idle"
    /\ IF idx < 0 \/ idx >= Len(annotations) \/ ~reply_yes
       THEN UNCHANGED <<annotations, viewer_annotations, scene, ocr>>
       ELSE /\ annotations' = Popped(annotations, idx)
            /\ viewer_annotations' = Shared(viewer_annotations, annotations')
            /\ scene' = Redraw(annotations', viewer.current_page,
                               modes.viewer_deletion_mode)
            /\ ocr' = [ocr EXCEPT !.annotation_texts =
                                      TextsAfterDelete(@, annotations, idx)]
    /\ UNCHANGED <<pure_call, modes, files, workers, events, gui_vars>>

\* one document of one page with one text block
AnnotFiles ==
    [p \in {"a.pdf"} |->
        << Page(PageRect(0, 0, 200, 200),
                << Block(BoxA, <<Txt("a", "b", "c")>>) >>) >>]

\* the rect the user drags in manual annotation mode
ManualRects == { QRectF(40, 40, 30, 20) }

AnnotInit ==
    /\ files = AnnotFiles
    /\ workers = <<>>
    /\ events = <<>>
    /\ main_pc = "idle"
    /\ pdf_path = ""
    /\ auto_worker = 0
    /\ auto_annotations_temp = <<>>
    /\ auto_controls_visible = FALSE
    /\ auto_annotate_btn = FALSE
    /\ progress_bar = [visible |-> FALSE, value |-> 0]
    /\ viewer = [pdf_doc |-> NoDoc, current_page |-> 0]
    /\ cancelled = {}
    /\ finished_runs = <<>>
    /\ pure_call = NoCall
    /\ annotations = <<>>
    /\ viewer_annotations = <<>>
    /\ scene = {}
    /\ modes = NoModes
    /\ ocr = OcrInit(FALSE)

AnnotNext ==
    \/ \E file_path \in DOMAIN files, opens \in BOOLEAN : load_pdf(file_path, opens)
    \/ AutoDetectClicked
    \/ AutoActionTriggered
    \/ CancelClicked
    \/ update_auto_progress
    \/ show_auto_annotations_preview
    \/ auto_annotation_finished
    \/ wait_returns
    \/ \E w \in 1..Len(workers) : W_Run(w)
    \/ \E rect \in ManualRects : add_balloon_from_selection(rect)
    \/ apply_selected_auto_annotations
    \/ select_all_auto_annotations
    \/ deselect_all_auto_annotations
    \/ \E idx \in -1..Len(annotations), reply_yes \in BOOLEAN :
          delete_annotation_by_index(idx, reply_yes)

SpecAnnot == AnnotInit /\ [][AnnotNext]_vars

-----------------------------------------------------------------------------
(* Selection mode, deletion mode and the annotation graphics *)

\* PDFViewer.enable_selection(enabled), pdf_viewer.py lines 274-278
enable_selection(m, enabled) ==
    [m EXCEPT !.selection_mode = enabled,
              !.viewer_deletion_mode = IF enabled THEN FALSE ELSE @]

\* PDFViewer.set_deletion_mode(enabled), pdf_viewer.py lines 280-291: the
\* flags of the viewer, and the items of the scene
set_deletion_mode(m, enabled) ==
    [m EXCEPT !.viewer_deletion_mode = enabled,
              !.selection_mode = IF enabled THEN FALSE ELSE @]

ItemsInMode(items, enabled) ==
    { [item EXCEPT !.deletion_mode = enabled] : item \in items }

\* deletion_mode_btn.setChecked(False) on a checked button, line 1079: toggled
\* is emitted and toggle_deletion_mode(False) runs inside the caller
DeletionUnchecked(m) ==
    set_deletion_mode([m EXCEPT !.deletion_mode_btn = FALSE,
                                !.deletion_mode = FALSE], FALSE)

\* annotate_btn.setChecked(False) on a checked button, line 1005: toggled is
\* emitted and toggle_area_selection(False) runs inside the caller
AnnotateUnchecked(m) ==
    enable_selection([m EXCEPT !.annotate_btn = FALSE], FALSE)

\* a toggle_area_selection that leaves the deletion button as it is: the
\* variant C28 rules out
toggle_area_selection_alone(checked) ==
    /\ main_pc = "idle"
    /\ modes.annotate_btn # checked
    /\ modes' = enable_selection([modes EXCEPT !.annotate_btn = checked], checked)
    /\ UNCHANGED <<pure_call, annotations, viewer_annotations, scene, ocr, files,
                   workers, events, gui_vars>>

\* the user toggles annotate_btn: toggle_area_selection(checked), lines
\* 1074-1081, with the slot its setChecked call runs
toggle_area_selection(checked) ==
    /\ main_pc = "idle"
    /\ modes.annotate_btn # checked
    /\ LET m == enable_selection([modes EXCEPT !.annotate_btn = checked], checked)
       IN  IF checked /\ m.deletion_mode_btn
           THEN /\ modes' = DeletionUnchecked(m)
                /\ scene' = ItemsInMode(scene, FALSE)
           ELSE /\ modes' = m
                /\ UNCHANGED scene
    /\ UNCHANGED <<pure_call, annotations, viewer_annotations, ocr, files,
                   workers, events, gui_vars>>

\* the user toggles deletion_mode_btn (enabled once a document was opened,
\* line 1038): toggle_deletion_mode(checked), lines 997-1007, with the slot
\* its setChecked call runs
toggle_deletion_mode(checked) ==
    /\ main_pc = "idle"
    /\ pdf_path # ""
    /\ modes.deletion_mode_btn # checked
    /\ LET m == set_deletion_mode([modes EXCEPT !.deletion_mode_btn = checked,
                                                !.deletion_mode = checked],
                                  checked)
       IN  modes' = IF checked /\ m.annotate_btn THEN AnnotateUnchecked(m) ELSE m
    /\ scene' = ItemsInMode(scene, checked)
    /\ UNCHANGED <<pure_call, annotations, viewer_annotations, ocr, files,
                   workers, events, gui_vars>>

\* PDFViewer.mouseReleaseEvent, pdf_viewer.py lines 456-464: in selection
\* mode a dragged rect is emitted as areaSelected, connected at line 464
AreaSelected(rect) ==
    /\ modes.selection_mode
    /\ add_balloon_from_selection(rect)

\* handle_annotation_click(annotation_index), lines 1044-1047
handle_annotation_click(annotation_index, reply_yes) ==
    IF modes.deletion_mode /\ 0 <= annotation_index
                           /\ annotation_index < Len(annotations)
    THEN delete_annotation_by_index(annotation_index, reply_yes)
    ELSE main_pc = "idle" /\ UNCHANGED vars

\* DraggableCircle.mousePressEvent, pdf_viewer.py lines 76-86: a left click
\* on the circle of an item in deletion mode emits annotation_clicked
CircleClicked(item, reply_yes) ==
    /\ item \in scene
    /\ item.deletion_mode
    /\ handle_annotation_click(item.annotation_index, reply_yes)

\* the delete button of an entry of the annotation list, line 1255
DeleteClicked(idx, reply_yes) ==
    /\ ~auto_controls_visible
    /\ idx \in 0..(Len(annotations) - 1)
    /\ delete_annotation_by_index(idx, reply_yes)

\* one document of two pages without text
SceneFiles ==
    [p \in {"a.pdf"} |->
        << Page(PageRect(0, 0, 200, 200), <<>>),
           Page(PageRect(0, 0, 200, 200), <<>>) >>]

SceneInit ==
    /\ files = SceneFiles
    /\ workers = <<>>
    /\ events = <<>>
    /\ main_pc = "idle"
    /\ pdf_path = ""
    /\ auto_worker = 0
    /\ auto_annotations_temp = <<>>
    /\ auto_controls_visible = FALSE
    /\ auto_annotate_btn = FALSE
    /\ progress_bar = [visible |-> FALSE, value |-> 0]
    /\ viewer = [pdf_doc |-> NoDoc, current_page |-> 0]
    /\ cancelled = {}
    /\ finished_runs = <<>>
    /\ pure_call = NoCall
    /\ annotations = <<>>
    /\ viewer_annotations = <<>>
    /\ scene = {}
    /\ modes = NoModes
    /\ ocr = OcrInit(FALSE)

SceneNext ==
    \/ \E file_path \in DOMAIN files, opens \in BOOLEAN : load_pdf(file_path, opens)
    \/ prev_page
    \/ next_page
    \/ \E checked \in BOOLEAN : toggle_area_selection(checked)
    \/ \E checked \in BOOLEAN : toggle_deletion_mode(checked)
    \/ \E rect \in ManualRects : AreaSelected(rect)
    \/ \E item \in scene, reply_yes \in BOOLEAN : CircleClicked(item, reply_yes)
    \/ \E idx \in 0..(Len(annotations) - 1), reply_yes \in BOOLEAN :
          DeleteClicked(idx, reply_yes)

SpecScene == SceneInit /\ [][SceneNext]_vars

-----------------------------------------------------------------------------
(* The OCR worker thread and the slots of its signals *)

\* OCRWorker.run, ocr_processor.py lines 85-88: the test of the while loop
\* and the pop; with an empty queue run() returns, and the thread is still
\* running (isRunning()) until Qt has ended it
O_NextTask ==
    /\ ocr.pc = "running"
    /\ ocr' = IF ocr.tasks = <<>>
              THEN [ocr EXCEPT !.pc = "returned"]
              ELSE [ocr EXCEPT !.pc = "busy",
                               !.task = Head(ocr.tasks),
                               !.tasks = Tail(ocr.tasks)]
    /\ UNCHANGED <<pure_call, annotations, viewer_annotations, scene, modes,
                   files, workers, events, gui_vars>>

\* OCRWorker.run, lines 90-97: extract_text_from_region returns or raises,
\* and the one signal or the other is emitted for the task
O_Emit(extracted) ==
    /\ ocr.pc = "busy"
    /\ events' = Append(events,
                        Signal(IF extracted THEN "ocr_completed" ELSE "ocr_failed", 0,
                               ocr.task.annotation_number, "", ocr.task))
    /\ ocr' = [ocr EXCEPT !.pc = "running", !.task = NoTask]
    /\ UNCHANGED <<pure_call, annotations, viewer_annotations, scene, modes,
                   files, workers, gui_vars>>

\* the thread whose run() has returned ends: isRunning() is false from here
O_Finished ==
    /\ ocr.pc = "returned"
    /\ ocr' = [ocr EXCEPT !.pc = "stopped"]
    /\ UNCHANGED <<pure_call, annotations, viewer_annotations, scene, modes,
                   files, workers, events, gui_vars>>

\* OCRManager.on_ocr_completed(annotation_number, ocr_results), lines 231-235
on_ocr_completed ==
    /\ main_pc = "idle"
    /\ events # <<>>
    /\ Head(events).sig = "ocr_completed"
    /\ events' = Tail(events)
    /\ ocr' = [ocr EXCEPT !.annotation_texts =
                  Put(@, Head(events).value,
                      [kind |-> "result", obj |-> Head(events).payload.obj])]
    /\ UNCHANGED <<pure_call, annotations, viewer_annotations, scene, modes,
                   files, workers, gui_vars>>

\* OCRManager.on_ocr_failed(annotation_number, error_message), lines 266-272
on_ocr_failed ==
    /\ main_pc = "idle"
    /\ events # <<>>
    /\ Head(events).sig = "ocr_failed"
    /\ events' = Tail(events)
    /\ ocr' = [ocr EXCEPT !.annotation_texts =
                  Put(@, Head(events).value,
                      [kind |-> "error", obj |-> Head(events).payload.obj])]
    /\ UNCHANGED <<pure_call, annotations, viewer_annotations, scene, modes,
                   files, workers, gui_vars>>

\* the main window after a.pdf was opened, lines 1024-1042, with pytesseract
\* and PIL installed (OCR_AVAILABLE is True)
OcrSpecInit ==
    /\ files = AnnotFiles
    /\ workers = <<>>
    /\ events = <<>>
    /\ main_pc = "idle"
    /\ pdf_path = "a.pdf"
    /\ auto_worker = 0
    /\ auto_annotations_temp = <<>>
    /\ auto_controls_visible = FALSE
    /\ auto_annotate_btn = TRUE
    /\ progress_bar = [visible |-> FALSE, value |-> 0]
    /\ viewer = [pdf_doc |-> [path |-> "a.pdf", closed |-> FALSE],
                 current_page |-> 0]
    /\ cancelled = {}
    /\ finished_runs = <<>>
    /\ pure_call = NoCall
    /\ annotations = <<>>
    /\ viewer_annotations = <<>>
    /\ scene = {}
    /\ modes = NoModes
    /\ ocr = OcrInit(TRUE)

OcrWorkerStep ==
    \/ O_NextTask
    \/ \E extracted \in BOOLEAN : O_Emit(extracted)
    \/ O_Finished

OcrDelivery ==
    \/ on_ocr_completed
    \/ on_ocr_failed

OcrNext ==
    \/ \E checked \in BOOLEAN : toggle_area_selection(checked)
    \/ \E rect \in ManualRects : AreaSelected(rect)
    \/ \E idx \in 0..(Len(annotations) - 1), reply_yes \in BOOLEAN :
          DeleteClicked(idx, reply_yes)
    \/ OcrWorkerStep
    \/ OcrDelivery

SpecOcr == OcrSpecInit /\ [][OcrNext]_vars

\* a started thread runs and ends, and the event loop delivers queued
\* signals; the user is under no obligation
SpecOcrFair ==
    /\ SpecOcr
    /\ WF_vars(OcrWorkerStep)
    /\ WF_vars(OcrDelivery)

-----------------------------------------------------------------------------
(* The selection of preview candidates and their commit *)

\* toggle_auto_annotation_selection(index, state), lines 1139-1142, called by
\* the checkbox of candidate index; checked is state == Checked
toggle_auto_annotation_selection(index, checked) ==
    /\ main_pc = "idle"
    /\ IF 0 <= index /\ index < Len(auto_annotations_temp)
       THEN auto_annotations_temp' =
               [auto_annotations_temp EXCEPT ![index + 1].selected = checked]
       ELSE UNCHANGED auto_annotations_temp
    /\ UNCHANGED <<other_vars, files, workers, events, main_pc, pdf_path,
                   auto_worker, auto_controls_visible, auto_annotate_btn,
                   progress_bar, viewer, cancelled, finished_runs>>

\* one document of one page with two text blocks far from each other
ApplyFiles ==
    [p \in {"a.pdf"} |->
        << Page(PageRect(0, 0, 200, 200),
                << Block(BoxA, <<Txt("a", "b", "c")>>),
                   Block(BoxFar, <<Txt("l", "m", "n")>>) >>) >>]

\* the main window after construction, with pytesseract and PIL installed
ApplyInit ==
    /\ files = ApplyFiles
    /\ workers = <<>>
    /\ events = <<>>
    /\ main_pc = "idle"
    /\ pdf_path = ""
    /\ auto_worker = 0
    /\ auto_annotations_temp = <<>>
    /\ auto_controls_visible = FALSE
    /\ auto_annotate_btn = FALSE
    /\ progress_bar = [visible |-> FALSE, value |-> 0]
    /\ viewer = [pdf_doc |-> NoDoc, current_page |-> 0]
    /\ cancelled = {}
    /\ finished_runs = <<>>
    /\ pure_call = NoCall
    /\ annotations = <<>>
    /\ viewer_annotations = <<>>
    /\ scene = {}
    /\ modes = NoModes
    /\ ocr = OcrInit(TRUE)

ApplyNext ==
    \/ \E file_path \in DOMAIN files, opens \in BOOLEAN : load_pdf(file_path, opens)
    \/ AutoDetectClicked
    \/ CancelClicked
    \/ update_auto_progress
    \/ show_auto_annotations_preview
    \/ auto_annotation_finished
    \/ wait_returns
    \/ \E w \in 1..Len(workers) : W_Run(w)
    \/ \E index \in 0..(Len(auto_annotations_temp) - 1), checked \in BOOLEAN :
          toggle_auto_annotation_selection(index, checked)
    \/ select_all_auto_annotations
    \/ deselect_all_auto_annotations
    \/ apply_selected_auto_annotations

SpecApply == ApplyInit /\ [][ApplyNext]_vars

-----------------------------------------------------------------------------
(* Page navigation of the viewer, call by call *)

\* a call of a navigation method of PDFViewer: the argument, the page and the
\* page count before the call, the page after it and the value returned
PageCall(fn, page_index, after, ret) ==
    [fn |-> fn, page_index |-> page_index, before |-> viewer.current_page,
     count |-> PageCount, after |-> after, ret |-> ret]

\* a go_to_page that accepts the page count as an index: the variant C29
\* rules out
go_to_page_through_count(page_index) ==
    /\ main_pc = "idle"
    /\ ViewerReady
    /\ LET ret == 0 <= page_index /\ page_index <= PageCount
           after == IF ret THEN page_index ELSE viewer.current_page
       IN  /\ viewer' = [viewer EXCEPT !.current_page = after]
           /\ scene' = IF ret
                       THEN Redraw(viewer_annotations, after, modes.viewer_deletion_mode)
                       ELSE scene
           /\ pure_call' = PageCall("go_to_page", page_index, after, ret)
    /\ UNCHANGED <<annotations, viewer_annotations, modes, ocr, files, workers,
                   events, main_pc, pdf_path, auto_worker, auto_annotations_temp,
                   auto_controls_visible, auto_annotate_btn, progress_bar,
                   cancelled, finished_runs>>

\* PDFViewer.go_to_page(page_index), pdf_viewer.py lines 340-345
go_to_page(page_index) ==
    /\ main_pc = "idle"
    /\ ViewerReady
    /\ LET ret == 0 <= page_index /\ page_index < PageCount
           after == IF ret THEN page_index ELSE viewer.current_page
       IN  /\ viewer' = [viewer EXCEPT !.current_page = after]
           /\ scene' = IF ret
                       THEN Redraw(viewer_annotations, after, modes.viewer_deletion_mode)
                       ELSE scene
           /\ pure_call' = PageCall("go_to_page", page_index, after, ret)
    /\ UNCHANGED <<annotations, viewer_annotations, modes, ocr, files, workers,
                   events, main_pc, pdf_path, auto_worker, auto_annotations_temp,
                   auto_controls_visible, auto_annotate_btn, progress_bar,
                   cancelled, finished_runs>>

\* PDFViewer.next_page(), pdf_viewer.py lines 347-352
viewer_next_page ==
    /\ main_pc = "idle"
    /\ ViewerReady
    /\ LET ret == viewer.current_page < PageCount - 1
           after == IF ret THEN viewer.current_page + 1 ELSE viewer.current_page
       IN  /\ viewer' = [viewer EXCEPT !.current_page = after]
           /\ scene' = IF ret
                       THEN Redraw(viewer_annotations, after, modes.viewer_deletion_mode)
                       ELSE scene
           /\ pure_call' = PageCall("next_page", 0, after, ret)
    /\ UNCHANGED <<annotations, viewer_annotations, modes, ocr, files, workers,
                   events, main_pc, pdf_path, auto_worker, auto_annotations_temp,
                   auto_controls_visible, auto_annotate_btn, progress_bar,
                   cancelled, finished_runs>>

\* PDFViewer.prev_page(), pdf_viewer.py lines 354-359
viewer_prev_page ==
    /\ main_pc = "idle"
    /\ ViewerReady
    /\ LET ret == viewer.current_page > 0
           after == IF ret THEN viewer.current_page - 1 ELSE viewer.current_page
       IN  /\ viewer' = [viewer EXCEPT !.current_page = after]
           /\ scene' = IF ret
                       THEN Redraw(viewer_annotations, after, modes.viewer_deletion_mode)
                       ELSE scene
           /\ pure_call' = PageCall("prev_page", 0, after, ret)
    /\ UNCHANGED <<annotations, viewer_annotations, modes, ocr, files, workers,
                   events, main_pc, pdf_path, auto_worker, auto_annotations_temp,
                   auto_controls_visible, auto_annotate_btn, progress_bar,
                   cancelled, finished_runs>>

\* documents of one, two and MaxPages pages, without text
PagesFiles ==
    [p \in {"a.pdf", "b.pdf", "c.pdf"} |->
        [i \in 1..(IF p = "a.pdf" THEN MaxPages ELSE IF p = "b.pdf" THEN 2 ELSE 1) |->
            Page(PageRect(0, 0, 200, 200), <<>>)]]

PagesInit ==
    /\ files = PagesFiles
    /\ workers = <<>>
    /\ events = <<>>
    /\ main_pc = "idle"
    /\ pdf_path = ""
    /\ auto_worker = 0
    /\ auto_annotations_temp = <<>>
    /\ auto_controls_visible = FALSE
    /\ auto_annotate_btn = FALSE
    /\ progress_bar = [visible |-> FALSE, value |-> 0]
    /\ viewer = [pdf_doc |-> NoDoc, current_page |-> 0]
    /\ cancelled = {}
    /\ finished_runs = <<>>
    /\ pure_call = NoCall
    /\ annotations = <<>>
    /\ viewer_annotations = <<>>
    /\ scene = {}
    /\ modes = NoModes
    /\ ocr = OcrInit(FALSE)

PagesNext ==
    \/ \E file_path \in DOMAIN files, opens \in BOOLEAN : load_pdf(file_path, opens)
    \/ \E page_index \in -1..(MaxPages + 1) : go_to_page(page_index)
    \/ viewer_next_page
    \/ viewer_prev_page

SpecPages == PagesInit /\ [][PagesNext]_vars

-----------------------------------------------------------------------------
(* Properties *)

Workers == 1..Len(workers)

\* the run of worker w has returned without raising
Completed(w) == workers[w].pc = "done" /\ workers[w].raised = "none"

CountSig(log, sig) == Cardinality({k \in 1..Len(log) : log[k].sig = sig})
CountErrors(log) ==
    Cardinality({k \in 1..Len(log) :
                    log[k].sig = "progress_updated" /\ log[k].msg = "Error"})

\* the page worker w read
PageOf(w) == files[workers[w].pdf_path][workers[w].page_num + 1]

\* C1: the numbers of the candidates a run emits are 1..N in output order, so
\* a region dropped by the text-length filter consumes no number.
C1_NumberingDense ==
    \A w \in Workers :
        Completed(w) =>
            \A k \in 1..Len(workers[w].detected_annotations) :
                workers[w].detected_annotations[k].number = k

\* Geometry of padded boxes <<x0, y0, x1, y1>> as sets of points: a box with
\* x1 <= x0 or y1 <= y0 holds no area and intersects nothing
BoxArea(p) == IF p[3] > p[1] /\ p[4] > p[2] THEN (p[3] - p[1]) * (p[4] - p[2]) ELSE 0
BoxMeet(p, q) == << Max(p[1], q[1]), Max(p[2], q[2]), Min(p[3], q[3]), Min(p[4], q[4]) >>
InterArea(p, q) == IF BoxArea(p) > 0 /\ BoxArea(q) > 0 THEN BoxArea(BoxMeet(p, q)) ELSE 0
Bounding(p, q) == << Min(p[1], q[1]), Min(p[2], q[2]), Max(p[3], q[3]), Max(p[4], q[4]) >>
Scaled(p) == QRectF(p[1] * DisplayScale, p[2] * DisplayScale,
                    (p[3] - p[1]) * DisplayScale, (p[4] - p[2]) * DisplayScale)
\* p comes strictly after q in (top, left) order
SortsAfter(p, q) == p[2] > q[2] \/ (p[2] = q[2] /\ p[1] > q[1])
BlockText(b) == Strip(text_content(b.lines))
Padded(b, w) == apply_padding_with_boundaries(b.bbox, PageOf(w).rect)

\* A, B, C are as scenario 4 has them: text blocks with more than 2
\* characters, A and B overlapping by more than 30% of B's area, C
\* intersecting neither
Scenario4Blocks(a, b, c, w) ==
    /\ a.has_lines /\ b.has_lines /\ c.has_lines
    /\ Len(BlockText(a)) > MinTextLen
    /\ Len(BlockText(b)) > MinTextLen
    /\ Len(BlockText(c)) > MinTextLen
    /\ ThresholdDen * InterArea(Padded(a, w), Padded(b, w))
          > ThresholdNum * BoxArea(Padded(b, w))
    /\ InterArea(Padded(c, w), Padded(a, w)) = 0
    /\ InterArea(Padded(c, w), Padded(b, w)) = 0

\* two candidates: merged(A, B) numbered 1, C numbered 2, palette indices 0 and 1
Scenario4Result(a, b, c, w) ==
    LET d == workers[w].detected_annotations
    IN  /\ Len(d) = 2
        /\ d[1].number = 1 /\ d[1].color = COLORS[1]
        /\ d[1].rect = Scaled(Bounding(Padded(a, w), Padded(b, w)))
        /\ d[1].detected_text \in { BlockText(a) \o <<" ">> \o BlockText(b),
                                     BlockText(b) \o <<" ">> \o BlockText(a) }
        /\ d[2].number = 2 /\ d[2].color = COLORS[2]
        /\ d[2].rect = Scaled(Padded(c, w))
        /\ d[2].detected_text = BlockText(c)

ThreeBlocks(w) == Completed(w) /\ Len(PageOf(w).blocks) = 3

Roles == { r \in [1..3 -> 1..3] : r[1] # r[2] /\ r[1] # r[3] /\ r[2] # r[3] }

\* C2 as stated: for any three blocks A, B, C as in scenario 4, whatever their
\* position, the run emits merged(A, B) numbered 1 and C numbered 2.
C2_Scenario4AnyPosition ==
    \A w \in Workers :
        ThreeBlocks(w) =>
            \A r \in Roles :
                LET bs == PageOf(w).blocks
                IN  Scenario4Blocks(bs[r[1]], bs[r[2]], bs[r[3]], w)
                        => Scenario4Result(bs[r[1]], bs[r[2]], bs[r[3]], w)

\* C comes after A and B in (top, left) order and stays clear of the
\* bounding rectangle of A and B
Scenario4CLast(a, b, c, w) ==
    /\ SortsAfter(Padded(c, w), Padded(a, w))
    /\ SortsAfter(Padded(c, w), Padded(b, w))
    /\ InterArea(Padded(c, w), Bounding(Padded(a, w), Padded(b, w))) = 0

\* C2 amended: for any three blocks A, B, C as in scenario 4 where C's padded
\* rectangle sorts after those of A and B in (top, left) order and does not
\* intersect their bounding rectangle, the run emits exactly merged(A, B)
\* numbered 1 and C numbered 2, with palette indices 0 and 1.
C2_Scenario4CLast ==
    \A w \in Workers :
        ThreeBlocks(w) =>
            \A r \in Roles :
                LET bs == PageOf(w).blocks
                IN  /\ Scenario4Blocks(bs[r[1]], bs[r[2]], bs[r[3]], w)
                    /\ Scenario4CLast(bs[r[1]], bs[r[2]], bs[r[3]], w)
                    => Scenario4Result(bs[r[1]], bs[r[2]], bs[r[3]], w)

\* a completed run on three blocks that are as the amended C2 wants them, A
\* being the larger of the two merged and B the smaller
C2_Witness ==
    \E w \in Workers :
        /\ ThreeBlocks(w)
        /\ \E r \in Roles :
              LET bs == PageOf(w).blocks
              IN  /\ Scenario4Blocks(bs[r[1]], bs[r[2]], bs[r[3]], w)
                  /\ Scenario4CLast(bs[r[1]], bs[r[2]], bs[r[3]], w)
                  /\ BoxArea(Padded(bs[r[1]], w)) > BoxArea(Padded(bs[r[2]], w))
                  /\ Len(workers[w].detected_annotations) = 2

\* C5: the document a run opened is closed by the time the run emits finished,
\* whether the run completed or one of its calls raised.
C5_DocClosedBeforeFinished ==
    \A w \in Workers :
        CountSig(workers[w].emitted, "finished") > 0 => workers[w].doc # "open"

\* C6 as stated: two input regions more than one position apart in the sort
\* order never end up in the same merged region.
C6_NeverBeyondOneHop ==
    \A w \in Workers :
        Completed(w) =>
            \A k \in 1..Len(workers[w].merged_regions) :
                LET m == workers[w].merged_regions[k].members
                IN  \A i, j \in 1..Len(m) : m[j] - m[i] <= 1

\* C6 amended: a merged region is a run of consecutive positions of the sort
\* order: a region is folded only into the accumulator right before it, so two
\* input regions end up in the same merged region only together with every
\* region between them, and a region that overlaps an earlier one is kept
\* apart from it whenever a region between them starts a new accumulator.
C6_MergedRunsAreConsecutive ==
    \A w \in Workers :
        Completed(w) =>
            \A k \in 1..Len(workers[w].merged_regions) :
                LET m == workers[w].merged_regions[k].members
                IN  /\ Len(m) >= 1
                    /\ \A i \in 1..(Len(m) - 1) : m[i + 1] = m[i] + 1

\* a run that folded three regions into one, and a run that kept apart two
\* regions that overlap because a third lies between them in the sort order
C6_WitnessChain ==
    \E w \in Workers :
        /\ Completed(w)
        /\ \E k \in 1..Len(workers[w].merged_regions) :
              Len(workers[w].merged_regions[k].members) >= 3

\* C7: the box apply_padding_with_boundaries returns lies within the page
\* bounds: x0 >= P.x0, y0 >= P.y0, x1 <= P.x1, y1 <= P.y1.
C7_PaddingWithinPage ==
    \A w \in Workers :
        \A k \in 1..Len(workers[w].text_regions) :
            LET p == workers[w].text_regions[k].padded_bbox
                P == workers[w].page_rect
            IN  p[1] >= P.x0 /\ p[2] >= P.y0 /\ p[3] <= P.x1 /\ p[4] <= P.y1

\* a region whose box had to be clamped on the left and one on the right
C7_Witness ==
    \E w \in Workers :
        /\ \E k \in 1..Len(workers[w].text_regions) :
              workers[w].text_regions[k].original_bbox[1] - horizontal_padding
                  < workers[w].page_rect.x0
        /\ \E k \in 1..Len(workers[w].text_regions) :
              workers[w].text_regions[k].original_bbox[3] + horizontal_padding
                  > workers[w].page_rect.x1

\* C8: the rect of every emitted candidate lies within the page bounds scaled
\* by 2.
C8_RectWithinScaledPage ==
    \A w \in Workers :
        Completed(w) =>
            \A k \in 1..Len(workers[w].detected_annotations) :
                LET r == workers[w].detected_annotations[k].rect
                    P == workers[w].page_rect
                IN  /\ NormL(r) >= P.x0 * DisplayScale
                    /\ NormT(r) >= P.y0 * DisplayScale
                    /\ NormR(r) <= P.x1 * DisplayScale
                    /\ NormB(r) <= P.y1 * DisplayScale

\* C9: when opening the document, reading the page or extracting its blocks
\* raises, the run emits no annotations_found, exactly one error message and,
\* still, finished.
C9_FailureAborts ==
    \A w \in Workers :
        workers[w].raised # "none" =>
            /\ CountSig(workers[w].emitted, "annotations_found") = 0
            /\ CountErrors(workers[w].emitted) = 1
            /\ CountSig(workers[w].emitted, "finished") = 1
            /\ workers[w].emitted[Len(workers[w].emitted)].sig = "finished"
            /\ workers[w].detected_annotations = <<>>

\* a run whose get_text raised, after document and page were read
C9_Witness ==
    \E w \in Workers : workers[w].raised = "get_text" /\ workers[w].pc = "done"

\* C3: at most one worker is in flight (started, finished not yet emitted).
C3_OneWorkerInFlight ==
    Cardinality({w \in Workers : workers[w].pc # "done"}) <= 1

\* C4: the candidates of a run that was in flight when cancel_auto_annotation
\* ran are not delivered to the preview: on delivery of its annotations_found
\* the preview list and the preview controls stay as cancel left them.
C4_CancelDiscardsResult ==
    [][ ( /\ events # <<>>
          /\ Head(events).sig = "annotations_found"
          /\ Head(events).w \in cancelled
          /\ events' = Tail(events) )
        => ( auto_annotations_temp' = <<>> /\ ~auto_controls_visible' ) ]_vars

\* how often auto_annotation_finished has run for worker w
FinishedRuns(w) == IF w \in DOMAIN finished_runs THEN finished_runs[w] ELSE 0

\* C10: every started worker leads to auto_annotation_finished running for it,
\* which re-enables the Auto Detect button and hides the progress bar, and
\* auto_annotation_finished never runs twice for one worker.
C10_ControlsReenabled ==
    \A w \in 1..MaxWorkers :
        /\ (Len(workers) >= w)
              ~> (FinishedRuns(w) = 1 /\ auto_annotate_btn /\ ~progress_bar.visible)
        /\ [](FinishedRuns(w) <= 1)

\* the finished slot has run once for a worker whose run raised and once for a
\* worker whose run completed, and the controls are enabled again
C10_Witness ==
    /\ \E w \in Workers : workers[w].raised # "none" /\ FinishedRuns(w) = 1
    /\ \E w \in Workers : Completed(w) /\ FinishedRuns(w) = 1
    /\ auto_annotate_btn
    /\ ~progress_bar.visible


\* the regions of a sequence whose text is longer than MinTextLen characters
LongText(r) == Len(r.text) > MinTextLen
Viable(regions) == SelectSeq(regions, LongText)

\* C11: the candidates a run emits are, in order, exactly the merged regions
\* whose trimmed text is longer than 2 characters: none with a text of 2 or
\* fewer characters is emitted, every longer one is, and dropping raises no
\* error.
C11_FilterThreshold ==
    \A w \in Workers :
        Completed(w) =>
            LET d == workers[w].detected_annotations
                v == Viable(workers[w].merged_regions)
            IN  /\ Len(d) = Len(v)
                /\ \A k \in 1..Len(d) :
                      /\ d[k].rect = v[k].rect
                      /\ d[k].detected_text = v[k].text
                      /\ Len(d[k].detected_text) > MinTextLen
                /\ \A k \in 1..Len(workers[w].merged_regions) :
                      workers[w].merged_regions[k].text
                          = Strip(workers[w].merged_regions[k].text)
                /\ CountErrors(workers[w].emitted) = 0

\* a run that dropped a region of exactly 2 characters and emitted one of 3
C11_Witness ==
    \E w \in Workers :
        /\ Completed(w)
        /\ \E k \in 1..Len(workers[w].merged_regions) :
              Len(workers[w].merged_regions[k].text) = MinTextLen
        /\ \E k \in 1..Len(workers[w].detected_annotations) :
              Len(workers[w].detected_annotations[k].detected_text) = MinTextLen + 1


\* C12: consecutive candidates of the emitted list are in reading order:
\* rect[i].top < rect[i+1].top, or the tops are equal and
\* rect[i].left <= rect[i+1].left.
C12_ReadingOrder ==
    \A w \in Workers :
        Completed(w) =>
            LET d == workers[w].detected_annotations
            IN  \A k \in 1..(Len(d) - 1) :
                    \/ RTop(d[k].rect) < RTop(d[k + 1].rect)
                    \/ /\ RTop(d[k].rect) = RTop(d[k + 1].rect)
                       /\ RLeft(d[k].rect) <= RLeft(d[k + 1].rect)

\* a run of three candidates, two of them with equal tops ordered by their
\* lefts, whose last candidate is the block the engine reported first
C12_Witness ==
    \E w \in Workers :
        LET d == workers[w].detected_annotations
        IN  /\ Completed(w)
            /\ Len(d) = 3
            /\ \E k \in 1..2 : /\ RTop(d[k].rect) = RTop(d[k + 1].rect)
                               /\ RLeft(d[k].rect) < RLeft(d[k + 1].rect)
            /\ \E k \in 1..2 : RTop(d[k].rect) < RTop(d[k + 1].rect)
            /\ PageOf(w).blocks[1].has_lines
            /\ d[3].rect = Scaled(Padded(PageOf(w).blocks[1], w))


\* the text the accumulator holds after folding in the first n of the regions
\* whose positions in the sorted input are m: each fold is the trimmed
\* concatenation, with one space, of the accumulator's text and the next text
RECURSIVE FoldedText(_, _, _)
FoldedText(inputs, m, n) ==
    IF n = 1 THEN inputs[m[1]].text
    ELSE Strip(FoldedText(inputs, m, n - 1) \o <<" ">> \o inputs[m[n]].text)

\* C13: the text of a merged region is the trimmed concatenation, fold by
\* fold and in sort order, of the texts of the regions folded into it, and
\* every input region is folded into exactly one merged region.
C13_MergeTextLossless ==
    \A w \in Workers :
        Completed(w) =>
            LET inputs == workers[w].text_regions
                out == workers[w].merged_regions
            IN  /\ \A k \in 1..Len(out) :
                      LET m == out[k].members
                      IN  /\ Len(m) >= 1
                          /\ \A i \in 1..(Len(m) - 1) : m[i] < m[i + 1]
                          /\ out[k].text = FoldedText(inputs, m, Len(m))
                /\ \A p \in 1..Len(inputs) :
                      Cardinality({ <<k, i>> \in (1..Len(out)) \X (1..Len(inputs)) :
                                      i <= Len(out[k].members)
                                      /\ out[k].members[i] = p }) = 1

\* a run that folded two regions with texts into one and left another alone
C13_Witness ==
    \E w \in Workers :
        /\ Completed(w)
        /\ \E k \in 1..Len(workers[w].merged_regions) :
              LET m == workers[w].merged_regions[k].members
                  inputs == workers[w].text_regions
              IN  /\ Len(m) = 2
                  /\ inputs[m[1]].text # <<>> /\ inputs[m[2]].text # <<>>
                  /\ inputs[m[1]].text # inputs[m[2]].text
                  /\ workers[w].merged_regions[k].text
                        = inputs[m[1]].text \o <<" ">> \o inputs[m[2]].text
        /\ \E k \in 1..Len(workers[w].merged_regions) :
              Len(workers[w].merged_regions[k].members) = 1


\* rectangle a covers rectangle b, both taken by their normalised edges (the
\* edges left(), top(), right(), bottom() of a rectangle of width and height >= 0)
Covers(a, b) ==
    /\ NormL(a) <= NormL(b) /\ NormT(a) <= NormT(b)
    /\ NormR(a) >= NormR(b) /\ NormB(a) >= NormB(b)

\* C14: the rect of a merged region is exactly the bounding rectangle of the
\* rects folded into it: it covers each of them, and each of its edges is the
\* edge of one of them (min of lefts and tops, max of rights and bottoms).
C14_MergeRectIsBounding ==
    \A w \in Workers :
        Completed(w) =>
            LET inputs == workers[w].text_regions
                out == workers[w].merged_regions
            IN  \A k \in 1..Len(out) :
                    LET m == out[k].members
                        folded == { inputs[m[i]].rect : i \in 1..Len(m) }
                    IN  /\ \A r \in folded : Covers(out[k].rect, r)
                        /\ \E r \in folded : NormL(r) = NormL(out[k].rect)
                        /\ \E r \in folded : NormT(r) = NormT(out[k].rect)
                        /\ \E r \in folded : NormR(r) = NormR(out[k].rect)
                        /\ \E r \in folded : NormB(r) = NormB(out[k].rect)

\* a run that merged two regions neither of which covers the other, so that
\* the merged rect is larger than both
C14_Witness ==
    \E w \in Workers :
        /\ Completed(w)
        /\ \E k \in 1..Len(workers[w].merged_regions) :
              LET m == workers[w].merged_regions[k].members
                  inputs == workers[w].text_regions
              IN  /\ Len(m) >= 2
                  /\ ~Covers(inputs[m[1]].rect, inputs[m[2]].rect)
                  /\ ~Covers(inputs[m[2]].rect, inputs[m[1]].rect)
                  /\ workers[w].merged_regions[k].rect.w > inputs[m[1]].rect.w
                  /\ workers[w].merged_regions[k].rect.w > inputs[m[2]].rect.w


\* the area two rects share, and the area w * h of one, as rectangles_overlap
\* measures them
SharedArea(r1, r2) ==
    LET dx == Min(NormR(r1), NormR(r2)) - Max(NormL(r1), NormL(r2))
        dy == Min(NormB(r1), NormB(r2)) - Max(NormT(r1), NormT(r2))
    IN  IF dx > 0 /\ dy > 0 THEN dx * dy ELSE 0
AreaOf(r) == r.w * r.h

\* C15: rectangles_overlap(r1, r2, 0.3) is true exactly when r1 and r2 share
\* area, the smaller of their areas is not zero, and the shared area divided
\* by the smaller area is more than 0.3 (a quotient that is negative when the
\* smaller area is); a ratio of exactly 0.3 and a rect without area give false.
C15_OverlapPredicate ==
    pure_call.fn = "rectangles_overlap" /\ pure_call.returned =>
        LET r1 == pure_call.rect1
            r2 == pure_call.rect2
            smaller == IF AreaOf(r1) <= AreaOf(r2) THEN AreaOf(r1) ELSE AreaOf(r2)
        IN  /\ pure_call.ret <=>
                  /\ SharedArea(r1, r2) > 0
                  /\ smaller > 0
                  /\ ThresholdDen * SharedArea(r1, r2) > ThresholdNum * smaller
            /\ (AreaOf(r1) = 0 \/ AreaOf(r2) = 0) => ~pure_call.ret

\* a call on two rects that share exactly 0.3 of the smaller area has returned
C15_Witness ==
    /\ pure_call.fn = "rectangles_overlap" /\ pure_call.returned
    /\ AreaOf(pure_call.rect1) > 0 /\ AreaOf(pure_call.rect1) < AreaOf(pure_call.rect2)
    /\ ThresholdDen * SharedArea(pure_call.rect1, pure_call.rect2)
          = ThresholdNum * AreaOf(pure_call.rect1)
    /\ ~pure_call.ret


\* every candidate the workers and the numbering loop have built
AllCandidates ==
    UNION { { workers[w].detected_annotations[k] :
                k \in 1..Len(workers[w].detected_annotations) } : w \in Workers }
    \cup (IF pure_call.fn = "number" /\ pure_call.returned
          THEN { pure_call.detected_annotations[k] :
                   k \in 1..Len(pure_call.detected_annotations) }
          ELSE {})

\* C16: the colour of every candidate is COLORS[(number - 1) mod len(COLORS)]
\* (COLORS counted from 0) for its own number, COLORS being 10 distinct colours.
C16_ColorFollowsNumber ==
    /\ Len(COLORS) = 10
    /\ \A i, j \in 1..Len(COLORS) : COLORS[i] = COLORS[j] => i = j
    /\ \A c \in AllCandidates :
          c.color = COLORS[((c.number - 1) % Len(COLORS)) + 1]

\* the loop has built a candidate numbered 11, which takes the first colour again
C16_Witness ==
    \E c \in AllCandidates : c.number = Len(COLORS) + 1 /\ c.color = COLORS[1]


\* the list a run handed to annotations_found
Delivered(w) ==
    LET e == workers[w].emitted
        k == CHOOSE k \in 1..Len(e) : e[k].sig = "annotations_found"
    IN  e[k].payload

NoTextBlock(w) ==
    \A k \in 1..Len(PageOf(w).blocks) : ~PageOf(w).blocks[k].has_lines

\* C18: a run on a page without text blocks, and a run all of whose merged
\* regions fail the text-length filter, end as a run in which nothing was
\* raised ends: annotations_found is emitted once, with an empty list, no
\* error message is emitted, and finished follows.
C18_EmptyIsNotAnError ==
    \A w \in Workers :
        /\ workers[w].pc = "done"
        /\ workers[w].raised = "none"
        /\ \/ NoTextBlock(w)
           \/ \A k \in 1..Len(workers[w].merged_regions) :
                  Len(workers[w].merged_regions[k].text) <= MinTextLen
        => /\ CountSig(workers[w].emitted, "annotations_found") = 1
           /\ Delivered(w) = <<>>
           /\ CountErrors(workers[w].emitted) = 0
           /\ workers[w].emitted[Len(workers[w].emitted)].sig = "finished"

\* a completed run on a page with two text blocks, both too short to be kept
C18_Witness ==
    \E w \in Workers :
        /\ Completed(w)
        /\ Len(workers[w].merged_regions) = 2
        /\ \A k \in 1..2 : Len(workers[w].merged_regions[k].text) <= MinTextLen
        /\ \E k \in 1..2 : Len(workers[w].merged_regions[k].text) = MinTextLen
        /\ Delivered(w) = <<>>


\* C20: a run emits annotations_found at most once; when it does, the list is
\* the whole batch (every merged region that passes the filter, in sorted
\* order) and finished comes after it; finished is the last signal of a run,
\* and every progress value is within 0..100.
C20_SingleBatch ==
    \A w \in Workers :
        LET e == workers[w].emitted
        IN  /\ CountSig(e, "annotations_found") <= 1
            /\ \A k \in 1..Len(e) :
                  /\ e[k].sig = "annotations_found" =>
                        /\ e[k].payload = workers[w].detected_annotations
                        /\ Len(e[k].payload) = Len(Viable(workers[w].merged_regions))
                        /\ workers[w].merged_regions
                              = SortRegions(workers[w].merged_regions)
                        /\ \E j \in (k + 1)..Len(e) : e[j].sig = "finished"
                  /\ e[k].sig = "finished" => k = Len(e)
                  /\ e[k].sig = "progress_updated" => e[k].value \in 0..100

\* a run has emitted one batch of two or more candidates, after the progress
\* value 90 and before the value 100 and finished
C20_Witness ==
    \E w \in Workers :
        LET e == workers[w].emitted
        IN  \E k \in 2..(Len(e) - 2) :
                /\ e[k].sig = "annotations_found"
                /\ Len(e[k].payload) >= 2
                /\ e[k - 1].sig = "progress_updated" /\ e[k - 1].value = 90
                /\ e[k + 1].sig = "progress_updated" /\ e[k + 1].value = 100
                /\ e[k + 2].sig = "finished"



\* a worker has been started and its finished signal is not delivered yet
InRun == \E w \in Workers : FinishedRuns(w) = 0

\* the step appends one manual annotation numbered Len + 1
IsAdd ==
    /\ Len(annotations') = Len(annotations) + 1
    /\ SubSeq(annotations', 1, Len(annotations)) = annotations
    /\ annotations'[Len(annotations')].origin = "manual"
    /\ annotations'[Len(annotations')].number = Len(annotations) + 1

\* the step appends the selected candidates of the preview, renumbered
IsApply ==
    LET selected == SelectSeq(auto_annotations_temp, IsSelected)
    IN  /\ selected # <<>>
        /\ annotations' = annotations \o Committed(selected, Len(annotations) + 1)

\* the step removes one entry and renumbers the rest
IsDelete ==
    \E idx \in 0..(Len(annotations) - 1) : annotations' = Popped(annotations, idx)

\* the step opens a document, which empties the list
IsClear ==
    /\ annotations' = <<>>
    /\ pdf_path' \in DOMAIN files
    /\ viewer' = [pdf_doc |-> [path |-> pdf_path', closed |-> FALSE],
                  current_page |-> 0]
    /\ workers' = workers /\ events' = events

\* C19 as stated: between start_auto_annotation and the delivery of finished,
\* every change of the permanent annotation list is a manual add, an apply or
\* a delete.
C19_OnlyAddApplyDelete ==
    [][InRun /\ annotations' # annotations => IsAdd \/ IsApply \/ IsDelete]_vars

\* C19 (amended): no step of a worker and no delivery of one of its signals
\* (progress, the batch for the preview, an error, finished) changes the
\* permanent annotation list; the list changes only by a manual add, an
\* apply, a delete, or the opening of a document, which empties it.
C19_DetectionLeavesAnnotations ==
    [][/\ (workers' # workers \/ events' # events) => annotations' = annotations
       /\ annotations' # annotations => IsAdd \/ IsApply \/ IsDelete \/ IsClear]_vars

\* a run has delivered its batch to the preview, its finished signal is still
\* queued, and the permanent list holds entries the user made meanwhile
C19_Witness ==
    /\ Len(annotations) = MaxAnnotations
    /\ auto_annotations_temp # <<>>
    /\ \E w \in Workers :
          /\ FinishedRuns(w) = 0
          /\ workers[w].pc = "done"
          /\ auto_annotations_temp = workers[w].detected_annotations
          /\ events # <<>>
          /\ Head(events).sig \in {"progress_updated", "finished"}
          /\ Head(events).w = w



\* C21: after any sequence of manual adds, commits and confirmed deletes (and
\* of documents opened), the permanent list is numbered densely in list
\* order: the i-th entry has number i; a committed candidate has the number
\* of its place in the list, not the number the detection gave it.
C21_DenseNumbering ==
    \A i \in 1..Len(annotations) : annotations[i].number = i

\* a candidate the detection numbered 1 was committed behind a manual
\* annotation, as number 2 of the list
C21_Witness ==
    /\ Len(annotations) = 2
    /\ annotations[1].origin = "manual"
    /\ annotations[2].origin = "auto"
    /\ annotations[2].number = 2
    /\ \E w \in Workers :
          /\ Len(workers[w].detected_annotations) = 1
          /\ workers[w].detected_annotations[1].number = 1
          /\ workers[w].detected_annotations[1].rect = annotations[2].rect



\* C22: the viewer's list and the main window's list hold the same
\* annotations in the same order after any sequence of load_pdf, manual add
\* and delete, so that a page navigation never draws a deleted annotation.
C22_ListsAgree ==
    /\ Len(viewer_annotations) = Len(annotations)
    /\ \A i \in 1..Len(annotations) : viewer_annotations[i].obj = annotations[i].obj


\* C23: an annotation graphic on the scene whose annotation_index is an
\* index of the main window's list (the only clicks handle_annotation_click
\* acts on) carries the index of the annotation it was drawn for, so that a
\* click on its circle in deletion mode deletes that annotation and no other.
C23_ItemIndexNamesItsAnnotation ==
    \A item \in scene :
        item.annotation_index < Len(annotations)
        => annotations[item.annotation_index + 1].obj = item.obj


\* C28: selection mode and deletion mode of the viewer are never both on, and
\* the main window's deletion mode is the viewer's, after any sequence of
\* toggles of the two buttons.
C28_ModesExclusive ==
    /\ ~(modes.selection_mode /\ modes.viewer_deletion_mode)
    /\ modes.deletion_mode = modes.viewer_deletion_mode
    /\ modes.annotate_btn = modes.selection_mode
    /\ modes.deletion_mode_btn = modes.viewer_deletion_mode
    /\ \A item \in scene : item.deletion_mode = modes.viewer_deletion_mode

\* selection mode is on and deletion mode is off in the viewer and in the
\* main window, with an annotation drawn on the scene and another deleted
C28_Witness ==
    /\ modes.selection_mode
    /\ ~modes.viewer_deletion_mode
    /\ ~modes.deletion_mode
    /\ scene # {}
    /\ Len(viewer_annotations) > Len(annotations)



\* the OCR task of the dict obj is in the queue of the worker
Queued(obj) == \E i \in 1..Len(ocr.tasks) : ocr.tasks[i].obj = obj

\* C24: every OCR task queued by process_annotation_ocr is eventually
\* processed: the worker pops it (and then emits ocr_completed or ocr_failed
\* for it), under every interleaving of the main thread with the worker.
C24_EveryTaskProcessed ==
    \A obj \in 1..MaxViewerAnnotations : Queued(obj) ~> ~Queued(obj)


\* C25: the text shown for an annotation is its own: an entry of
\* annotation_texts under the number of an annotation of the list is the
\* pending marker, the result or the error of the OCR of that annotation's
\* region, also when a delete renumbers the list while a task is in flight.
C25_TextOfItsAnnotation ==
    \A i \in 1..Len(annotations) :
        annotations[i].number \in DOMAIN ocr.annotation_texts
        => ocr.annotation_texts[annotations[i].number].obj = annotations[i].obj



\* C26: the pending preview candidates are those of a detection on the
\* document that is loaded and the page that is displayed: every candidate
\* has the page number of the displayed page, and the list is the result of a
\* worker that was started on pdf_path and on that page.
C26_PreviewOfCurrentPage ==
    auto_annotations_temp # <<>> =>
        /\ \A i \in 1..Len(auto_annotations_temp) :
              auto_annotations_temp[i].page = viewer.current_page
        /\ \E w \in Workers :
              /\ workers[w].detected_annotations = auto_annotations_temp
              /\ workers[w].pdf_path = pdf_path
              /\ workers[w].page_num = viewer.current_page



Objs(anns) == [i \in 1..Len(anns) |-> anns[i].obj]

\* C30: in every reachable state and for every index, a call of
\* delete_annotation_by_index with an index out of range, or with the
\* question declined, changes neither the annotation list (its entries and
\* their numbers) nor the OCR text map; a confirmed call with an index in
\* range removes the annotation at that index and no other, and keeps the
\* others in their order.
C30_DeleteOnlyWhenConfirmed ==
    \A idx \in -1..(Len(annotations) + 1), reply_yes \in BOOLEAN :
        IF idx < 0 \/ idx >= Len(annotations) \/ ~reply_yes
        THEN ~ENABLED ( /\ delete_annotation_by_index(idx, reply_yes)
                        /\ \/ annotations' # annotations
                           \/ ocr' # ocr )
        ELSE ~ENABLED ( /\ delete_annotation_by_index(idx, reply_yes)
                        /\ Objs(annotations') # Objs(Remaining(annotations, idx)) )

\* an annotation was deleted from a list of two, under an OCR text map with
\* entries, and another delete can be asked for
C30_Witness ==
    /\ Len(annotations) = 1
    /\ Len(viewer_annotations) = 2
    /\ annotations[1].obj = 2
    /\ DOMAIN ocr.annotation_texts # {}



\* C29: with a document loaded, current_page is a page of the document after
\* any sequence of next_page, prev_page and go_to_page calls (and of
\* documents opened); a call whose target is a page of the document goes
\* there and returns True, any other call returns False and leaves
\* current_page as it was.
C29_PageInRange ==
    /\ ViewerReady => viewer.current_page \in 0..(PageCount - 1)
    /\ pure_call # NoCall =>
          LET target == IF pure_call.fn = "go_to_page" THEN pure_call.page_index
                        ELSE IF pure_call.fn = "next_page" THEN pure_call.before + 1
                        ELSE pure_call.before - 1
          IN  /\ pure_call.ret = (target \in 0..(pure_call.count - 1))
              /\ pure_call.after = IF pure_call.ret THEN target ELSE pure_call.before

\* on the last page of the longest document, go_to_page with the page count
\* as index returned False and the page is still the last
C29_Witness ==
    /\ ViewerReady
    /\ pure_call # NoCall
    /\ pure_call.fn = "go_to_page"
    /\ pure_call.count = MaxPages
    /\ pure_call.page_index = pure_call.count
    /\ ~pure_call.ret
    /\ pure_call.before = MaxPages - 1
    /\ viewer.current_page = MaxPages - 1

=============================================================================
